---- MODULE Spec2Model ----
(***************************************************************************)
(* Verification model of vorg (media file organizer).                      *)
(*                                                                         *)
(*  - organizeFiles (business-logic/organizer): path planning, companion   *)
(*    matching, conflict resolution, preview / apply execution, driven the *)
(*    way handleApply drives it (a preview run, a confirmation, an apply   *)
(*    run over the same inputs).                                           *)
(*  - enrichMetadata (infrastructure/api): identifier resolution, local    *)
(*    store lookup, season batch fetch, secondary provider fallback.       *)
(*  - parseFilename and sanitizeFilename (core-data/parser), handleApply   *)
(*    (action/apply), handleRevert (action/revert) and loadConfig          *)
(*    (config/config), each with a specification of its own.               *)
(*                                                                         *)
(* Strings are sequences of one-character strings, so that the string      *)
(* functions of the program (sanitizeFilename, isSimilarName, ...) are     *)
(* computed character by character as the code computes them.  A path is a *)
(* sequence of path components.  An absent (undefined) field of a          *)
(* JavaScript object is a field that is not in the DOMAIN of the record.   *)
(***************************************************************************)
EXTENDS Integers, Sequences, FiniteSets, TLC

\* ------------------------------------------------------------------ bounds

\* Largest number of media files in one scanned batch.
MaxFiles == 3

\* Largest number of files already present under the destination roots.
MaxPreExisting == 1

\* Largest number of enrichMetadata calls in one session.
MaxEnrichCalls == 2

\* The folders between the scan path and a file, at most.
MaxDepth == 3

\* Longest name handed to sanitizeFilename.
MaxNameLen == 3

\* Largest number of moves recorded before handleRevert is called.
MaxMoves == 3

\* ------------------------------------------------------------ the state

VARIABLES
  files,          \* organizeFiles: files (MediaFile[]), fixed for both runs
  metadatas,      \* organizeFiles: metadatas, metadatas[i] belongs to files[i]
  preview,        \* organizeFiles: the preview argument of the current run
  pc,             \* where handleApply stands (see Init)
  vidx,           \* organizeFiles: index of the next entry of videoFiles
  sidx,           \* organizeFiles: index of the next entry of subtitleFiles
  results,        \* organizeFiles: the results array of the current run
  previewResults, \* handleApply: what the preview run returned
  fsFiles,        \* the file system: path -> content, for every existing file
  dirs,           \* the file system: the directories ensureDir has created
  moveLog,        \* database table file_moves, oldest first
  conflictCalls,  \* the calls the apply run made to onConflict, with the answers
  consoleErrors,  \* the "Failed to move" lines of the current run
  thrown,         \* the error organizeFiles raised, or "none"
  initialFiles,   \* the file system as it was before the preview run
  fileMetadata,   \* handleApply: `metadata` of the file its loop is working on
  ePc,            \* enrichMetadata: where the current call stands
  eInput,         \* enrichMetadata: the metadata argument
  enriched,       \* enrichMetadata: the copy `enriched` that is returned
  imdbID,         \* enrichMetadata: the id searchAndResolveImdbID returned
  tmdbSeriesId,   \* enrichMetadata: the id searchTmdbTVShow returned
  eBranch,        \* enrichMetadata: which branch called fetchAndStoreTVSeason
  searchCache,    \* api.ts: the module-level Map searchCache
  movies,         \* database table movies, by imdbID
  tv_show,        \* database table tv_show, by imdbID
  tv_show_episode,\* database table tv_show_episode, by imdbID
  ioTrace,        \* the provider requests and store accesses so far, in order
  callStart,      \* Len(ioTrace) when the current call started
  eHistory,       \* handleApply: the arguments of the calls so far, with where each began
  eCalls,         \* the number of enrichMetadata calls that have returned
  eThrown,        \* the error enrichMetadata raised, or "none"
  parsePc,        \* parseFilename: where the current call stands
  parseInput,     \* parseFilename: filename, fullPath and rootScanPath
  fileParse,      \* parseFilename: its locals title, year, season, episode, type
  currentPath,    \* parseFolderNames: currentPath
  levelsChecked,  \* parseFolderNames: levelsChecked
  folderParses,   \* parseFolderNames: folderParses, the parsed field of each entry
  folderMetadata, \* parseFolderNames: folderMetadata
  parsedFolders,  \* the directories whose names parseFolderNames has parsed
  parseResult,    \* parseFilename: the MediaMetadata it returned
  sanitizeInput,  \* sanitizeFilename: the name a caller starts from
  sanitized,      \* sanitizeFilename: what successive calls returned, oldest first
  revertPc,       \* handleRevert: where the call stands
  timestamps,     \* file_moves.timestamp of each row of moveLog, in seconds
  clock,          \* CURRENT_TIMESTAMP, in seconds
  movesToRevert,  \* handleRevert: movesToRevert
  revertIdx,      \* handleRevert: the index in movesToRevert of the next move
  configFiles,    \* the config file at each location: whether it exists, and its JSON object
  configScanPath, \* loadConfig: whether the scanPath argument is given
  configResult    \* loadConfig: the ConfigResult it returned

orgVars == <<files, metadatas, preview, pc, vidx, sidx, results, previewResults,
             fsFiles, dirs, moveLog, conflictCalls, consoleErrors, thrown,
             initialFiles, fileMetadata>>

enrichVars == <<ePc, eInput, enriched, imdbID, tmdbSeriesId, eBranch, searchCache,
                movies, tv_show, tv_show_episode, ioTrace, callStart, eHistory, eCalls, eThrown>>

parseVars == <<parsePc, parseInput, fileParse, currentPath, levelsChecked, folderParses,
               folderMetadata, parsedFolders, parseResult>>

sanitizeVars == <<sanitizeInput, sanitized>>

revertVars == <<revertPc, timestamps, clock, movesToRevert, revertIdx>>

configVars == <<configFiles, configScanPath, configResult>>

vars == <<orgVars, enrichVars, parseVars, sanitizeVars, revertVars, configVars>>

\* A Map or table without entries.
Empty == [k \in {} |-> k]

\* No metadata object.
NoMetadata == [type |-> "none"]

\* The enrichment state while handleApply is organizing: no call in progress.
EnrichAtRest ==
  /\ ePc = "idle"
  /\ eInput = NoMetadata
  /\ enriched = NoMetadata
  /\ imdbID = <<>>
  /\ tmdbSeriesId = 0
  /\ eBranch = "none"
  /\ searchCache = Empty
  /\ movies = Empty
  /\ tv_show = Empty
  /\ tv_show_episode = Empty
  /\ ioTrace = <<>>
  /\ callStart = 0
  /\ eHistory = <<>>
  /\ eCalls = 0
  /\ eThrown = "none"

\* The parser state while no parseFilename call is in progress.
ParseAtRest ==
  /\ parsePc = "idle"
  /\ parseInput = Empty
  /\ fileParse = NoMetadata
  /\ currentPath = <<>>
  /\ levelsChecked = 0
  /\ folderParses = <<>>
  /\ folderMetadata = Empty
  /\ parsedFolders = <<>>
  /\ parseResult = NoMetadata

\* No handleRevert call has been made.
RevertAtRest ==
  /\ revertPc = "idle"
  /\ timestamps = <<>>
  /\ clock = 0
  /\ movesToRevert = <<>>
  /\ revertIdx = 1

\* No loadConfig call has been made.
ConfigAtRest ==
  /\ configFiles = Empty
  /\ configScanPath = FALSE
  /\ configResult = Empty

\* No sanitizeFilename call has been made.
SanitizeAtRest ==
  /\ sanitizeInput = <<>>
  /\ sanitized = <<>>

\* The organizer state while handleApply is still enriching: no run started.
OrganizerAtRest ==
  /\ files = <<>>
  /\ metadatas = <<>>
  /\ preview = TRUE
  /\ pc = "enrich"
  /\ vidx = 1 /\ sidx = 1
  /\ results = <<>>
  /\ previewResults = <<>>
  /\ fsFiles = Empty
  /\ initialFiles = Empty
  /\ fileMetadata = NoMetadata
  /\ dirs = {}
  /\ moveLog = <<>>
  /\ conflictCalls = <<>>
  /\ consoleErrors = <<>>
  /\ thrown = "none"

\* ------------------------------------------------------- string primitives

Has(r, f) == f \in DOMAIN r

RECURSIVE Filter(_, _)
\* s.replace(/[set]/g, ''): the characters of s that are not in drop.
Filter(s, drop) ==
  IF s = <<>> THEN <<>>
  ELSE IF Head(s) \in drop THEN Filter(Tail(s), drop)
       ELSE <<Head(s)>> \o Filter(Tail(s), drop)

RECURSIVE StripRight(_, _)
\* s.replace(/[set]+$/, ''): s without its trailing run of characters of set.
StripRight(s, set) ==
  IF s # <<>> /\ s[Len(s)] \in set THEN StripRight(SubSeq(s, 1, Len(s) - 1), set)
  ELSE s

RECURSIVE StripLeft(_, _)
StripLeft(s, set) ==
  IF s # <<>> /\ Head(s) \in set THEN StripLeft(Tail(s), set)
  ELSE s

\* Characters JavaScript's \s and String.prototype.trim treat as white space
\* and that survive the control-character filter.
WhiteSpace == {" "}

\* String.prototype.trim
Trim(s) == StripLeft(StripRight(s, WhiteSpace), WhiteSpace)

\* String.prototype.includes
Includes(hay, needle) ==
  \E i \in 0..(Len(hay) - Len(needle)) : SubSeq(hay, i + 1, i + Len(needle)) = needle

\* String.prototype.endsWith / startsWith at a position
StartsWithAt(s, i, pre) ==
  /\ i + Len(pre) - 1 <= Len(s)
  /\ SubSeq(s, i, i + Len(pre) - 1) = pre

UpperLetters ==
  <<"A","B","C","D","E","F","G","H","I","J","K","L","M",
    "N","O","P","Q","R","S","T","U","V","W","X","Y","Z">>

LowerLetters ==
  <<"a","b","c","d","e","f","g","h","i","j","k","l","m",
    "n","o","p","q","r","s","t","u","v","w","x","y","z">>

LowerOf(c) ==
  IF \E i \in 1..Len(UpperLetters) : UpperLetters[i] = c
  THEN LowerLetters[CHOOSE i \in 1..Len(UpperLetters) : UpperLetters[i] = c]
  ELSE c

\* String.prototype.toLowerCase
ToLowerCase(s) == [i \in 1..Len(s) |-> LowerOf(s[i])]

Digit(d) ==
  CASE d = 0 -> "0" [] d = 1 -> "1" [] d = 2 -> "2" [] d = 3 -> "3" [] d = 4 -> "4"
    [] d = 5 -> "5" [] d = 6 -> "6" [] d = 7 -> "7" [] d = 8 -> "8" [] d = 9 -> "9"

RECURSIVE NumToStr(_)
\* Number.prototype.toString / template interpolation of a non-negative integer.
NumToStr(n) == IF n < 10 THEN <<Digit(n)>> ELSE NumToStr(n \div 10) \o <<Digit(n % 10)>>

\* ------------------------------------------------ core-data/parser (values)

\* The value of an absent string (JavaScript undefined) where a string is
\* expected, and the TypeError a string method raises when called on it.
\* Neither is a character string: their element is not a single character.
Undefined == <<"#undefined">>
TypeError == <<"#TypeError">>

StrUndefined == <<"u","n","d","e","f","i","n","e","d">>
StrUntitled == <<"U","n","t","i","t","l","e","d">>

\* metadata.title as a value: the string, or undefined.
TitleOf(m) == IF Has(m, "title") THEN m.title ELSE Undefined

\* JavaScript truthiness of an optional string / number field.
TruthyStr(m, f) == Has(m, f) /\ m[f] # <<>>
TruthyNum(m, f) == Has(m, f) /\ m[f] # 0

\* `${x}` for an optional string / number field.
TemplateStr(m, f) == IF Has(m, f) THEN m[f] ELSE StrUndefined
TemplateNum(m, f) == IF Has(m, f) THEN NumToStr(m[f]) ELSE StrUndefined

\* Characters sanitizeFilename deletes: Windows and Unix forbidden characters.
ForbiddenChars == {"<", ">", ":", "\"", "|", "?", "*", "\\", "/"}

\* Control characters (0x00-0x1F, 0x7F-0x9F) that occur in the modelled names.
ControlChars == {"\t", "\n"}

sanitizeFilename_stripFirst(filename) ==
  LET stripped == StripRight(filename, {".", " "})
      noControl == Filter(Filter(stripped, ForbiddenChars), ControlChars)
  IN  IF Trim(noControl) = <<>> THEN StrUntitled ELSE noControl

\* sanitizeFilename(filename): called on undefined, filename.replace raises.
sanitizeFilename(filename) ==
  IF filename = Undefined THEN TypeError
  ELSE LET noForbidden == Filter(filename, ForbiddenChars)
           noControl == Filter(noForbidden, ControlChars)
           stripped == StripRight(noControl, {".", " "})
       IN  IF Trim(stripped) = <<>> THEN StrUntitled ELSE stripped

\* " (" + year + ")" when metadata.year is truthy.
YearSuffix(m) ==
  IF TruthyNum(m, "year") THEN <<" ", "(">> \o NumToStr(m.year) \o <<")">> ELSE <<>>

\* The name generateNewName builds before sanitizing it.  For a movie the
\* name starts as metadata.title itself (possibly undefined, and then
\* `undefined + " (year)"` is the string "undefined (year)"); for anything
\* else it starts as the template `${metadata.title}`.
RawNewName(m) ==
  IF m.type = "movie"
  THEN IF Has(m, "title") THEN m.title \o YearSuffix(m)
       ELSE IF TruthyNum(m, "year") THEN StrUndefined \o YearSuffix(m)
       ELSE Undefined
  ELSE TemplateStr(m, "title") \o YearSuffix(m) \o
       (IF Has(m, "season") /\ Has(m, "episode")
        THEN <<" ","-"," ","S","e","a","s","o","n"," ">> \o NumToStr(m.season) \o
             <<" ","E","p","i","s","o","d","e"," ">> \o NumToStr(m.episode) \o
             (IF TruthyStr(m, "episodeTitle")
              THEN <<" ", "-", " ">> \o m.episodeTitle ELSE <<>>)
        ELSE <<>>)

generateNewName(metadata) == sanitizeFilename(RawNewName(metadata))

\* --------------------------------------- business-logic/organizer (values)

\* A faulty variant of checkMetadataErrors: the episode title is not required.
checkMetadataErrors_noEpisodeTitle(metadata) ==
  IF metadata.type = "tv"
  THEN (IF ~TruthyStr(metadata, "title") \/ Trim(metadata.title) = <<>>
        THEN <<"Missing TV show name">> ELSE <<>>) \o
       (IF ~Has(metadata, "season") THEN <<"Missing season number">> ELSE <<>>) \o
       (IF ~Has(metadata, "episode") THEN <<"Missing episode number">> ELSE <<>>)
  ELSE IF metadata.type = "movie"
  THEN (IF ~TruthyStr(metadata, "title") \/ Trim(metadata.title) = <<>>
        THEN <<"Missing movie name">> ELSE <<>>)
  ELSE <<>>

\* checkMetadataErrors(metadata): one message per missing required field.
checkMetadataErrors(metadata) ==
  IF metadata.type = "tv"
  THEN (IF ~TruthyStr(metadata, "title") \/ Trim(metadata.title) = <<>>
        THEN <<"Missing TV show name">> ELSE <<>>) \o
       (IF ~Has(metadata, "season") THEN <<"Missing season number">> ELSE <<>>) \o
       (IF ~Has(metadata, "episode") THEN <<"Missing episode number">> ELSE <<>>) \o
       (IF ~TruthyStr(metadata, "episodeTitle") \/ Trim(metadata.episodeTitle) = <<>>
        THEN <<"Missing episode title">> ELSE <<>>)
  ELSE IF metadata.type = "movie"
  THEN (IF ~TruthyStr(metadata, "title") \/ Trim(metadata.title) = <<>>
        THEN <<"Missing movie name">> ELSE <<>>)
  ELSE <<>>

\* The alternatives of the two suffix patterns of isSimilarName.
LanguageCodes ==
  { <<"e","n","g">>, <<"e","n","g","l","i","s","h">>, <<"s","p","a">>,
    <<"s","p","a","n","i","s","h">>, <<"f","r","e">>, <<"f","r","e","n","c","h">>,
    <<"g","e","r">>, <<"g","e","r","m","a","n">>, <<"i","t","a">>,
    <<"i","t","a","l","i","a","n">>, <<"p","o","r">>,
    <<"p","o","r","t","u","g","u","e","s","e">>, <<"r","u","s">>,
    <<"r","u","s","s","i","a","n">>, <<"j","p","n">>, <<"j","a","p","a","n","e","s","e">>,
    <<"k","o","r">>, <<"k","o","r","e","a","n">>, <<"c","h","i">>,
    <<"c","h","i","n","e","s","e">>, <<"a","r","a">>, <<"a","r","a","b","i","c">>,
    <<"h","i","n">>, <<"h","i","n","d","i">> }

FormatCodes == { <<"s","d","h">>, <<"f","o","r","c","e","d">>, <<"c","c">> }

\* Whether /\.(alt1|alt2|...)(\..*)?$/ matches s starting at the dot at i:
\* a dot, one alternative, and then the end of s or another dot.
SuffixMatchAt(s, i, alts) ==
  /\ s[i] = "."
  /\ \E a \in alts :
       /\ StartsWithAt(s, i + 1, a)
       /\ \/ i + Len(a) = Len(s)
          \/ s[i + Len(a) + 1] = "."

\* s.replace(/\.(alts)(\..*)?$/, ''): s cut at the leftmost match, if any.
StripSuffix(s, alts) ==
  LET hits == {i \in 1..Len(s) : SuffixMatchAt(s, i, alts)}
  IN  IF hits = {} THEN s
      ELSE SubSeq(s, 1, (CHOOSE i \in hits : \A j \in hits : i <= j) - 1)

\* x.replace(/[\s.-]/g, '')
Punctuation == {" ", ".", "-"}

\* isSimilarName(subtitleName, videoName)
isSimilarName(subtitleName, videoName) ==
  LET cleanSubtitle ==
        Trim(StripSuffix(StripSuffix(ToLowerCase(subtitleName), LanguageCodes),
                         FormatCodes))
      cleanVideo == Trim(ToLowerCase(videoName))
  IN  \/ Includes(cleanSubtitle, cleanVideo)
      \/ Includes(cleanVideo, cleanSubtitle)
      \/ Includes(Filter(cleanSubtitle, Punctuation), Filter(cleanVideo, Punctuation))
      \/ Includes(Filter(cleanVideo, Punctuation), Filter(cleanSubtitle, Punctuation))

\* Destination roots and the scanned folder (path = sequence of components).
moviePath == << <<"M">> >>
tvPath == << <<"T">> >>
scanPath == << <<"s">> >>

\* `Season ${metadata.season}`
SeasonFolder(m) == <<"S","e","a","s","o","n"," ">> \o TemplateNum(m, "season")

\* destDir of a file placed by `metadata`.
destDirOf(metadata) ==
  IF metadata.type = "movie"
  THEN Append(moviePath, generateNewName(metadata))
  ELSE Append(Append(tvPath, sanitizeFilename(TitleOf(metadata))), SeasonFolder(metadata))

\* A faulty variant of newPathOf: an apply run steps aside from a taken destination
\* by numbering the file name.
newPathOf_numbered(metadata, extension) ==
  LET plain == Append(destDirOf(metadata), generateNewName(metadata) \o extension)
  IN  IF ~preview /\ plain \in DOMAIN fsFiles
      THEN Append(destDirOf(metadata), generateNewName(metadata) \o <<"1">> \o extension)
      ELSE plain

\* newPath = path.join(destDir, `${baseName}${file.extension}`)
newPathOf(metadata, extension) ==
  Append(destDirOf(metadata), generateNewName(metadata) \o extension)

\* Whether computing the destination raises: sanitizeFilename was handed
\* undefined (a title that is absent) somewhere on the way.
destRaises(metadata) ==
  \/ generateNewName(metadata) = TypeError
  \/ \E k \in 1..Len(destDirOf(metadata)) : destDirOf(metadata)[k] = TypeError

\* ------------------------------------------------------------ the inputs

ExtVideo == <<".", "m", "k", "v">>
ExtSubtitle == <<".", "s", "r", "t">>

\* scanMediaFiles: a MediaFile of the scanned folder; name is the base name
\* without the extension.
MediaFile(name, extension, type) ==
  [path |-> Append(scanPath, name \o extension), name |-> name,
   extension |-> extension, type |-> type]

\* The files a batch is drawn from, each with the metadata handleApply
\* computed for it (enriched for a video, the parser's for a subtitle).
Pool ==
  << \* a valid movie
     [file |-> MediaFile(<<"A","b">>, ExtVideo, "video"),
      metadata |-> [type |-> "movie", title |-> <<"A","b">>, year |-> 2020]],
     \* a valid movie whose sanitized name is that of the first
     [file |-> MediaFile(<<"a","b",".","c">>, ExtVideo, "video"),
      metadata |-> [type |-> "movie", title |-> <<"A",":","b">>, year |-> 2020]],
     \* a valid episode, number 0
     [file |-> MediaFile(<<"Z","q">>, ExtVideo, "video"),
      metadata |-> [type |-> "tv", title |-> <<"Z","q">>, season |-> 1, episode |-> 0,
                    episodeTitle |-> <<"P">>]],
     \* an episode without episode number and episode title
     [file |-> MediaFile(<<"Z","q",".","2">>, ExtVideo, "video"),
      metadata |-> [type |-> "tv", title |-> <<"Z","q">>, season |-> 1]],
     \* a movie the parser found no title for
     [file |-> MediaFile(<<"U","b">>, ExtVideo, "video"),
      metadata |-> [type |-> "movie"]],
     \* subtitles
     [file |-> MediaFile(<<"A","b",".","e","n","g">>, ExtSubtitle, "subtitle"),
      metadata |-> [type |-> "movie", title |-> <<"A","b"," ","e","n","g">>]],
     [file |-> MediaFile(<<"z","-","q",".","s","d","h">>, ExtSubtitle, "subtitle"),
      metadata |-> [type |-> "movie", title |-> <<"z","-","q"," ","s","d","h">>]],
     [file |-> MediaFile(<<"U","b",".","c","c">>, ExtSubtitle, "subtitle"),
      metadata |-> [type |-> "movie", title |-> <<"U","b"," ","c","c">>]],
     [file |-> MediaFile(<<"N","n">>, ExtSubtitle, "subtitle"),
      metadata |-> [type |-> "movie", title |-> <<"N","n">>]] >>

RECURSIVE SetToSeq(_)
\* The members of a set of indexes in increasing order.
SetToSeq(S) ==
  IF S = {} THEN <<>>
  ELSE LET m == CHOOSE x \in S : \A y \in S : x <= y
       IN  <<m>> \o SetToSeq(S \ {m})

Reverse(s) == [i \in 1..Len(s) |-> s[Len(s) + 1 - i]]

\* The batches: up to MaxFiles pool entries, in pool order or reversed.
Batches ==
  UNION { {SetToSeq(S), Reverse(SetToSeq(S))} :
          S \in {T \in SUBSET (1..Len(Pool)) : Cardinality(T) \in 1..MaxFiles} }

\* What already lies at a destination path before the run.
OldContent == << <<"old">> >>

\* The destination paths a batch can plan: those of its well-formed videos.
DestCandidates(batch) ==
  { Append(destDirOf(Pool[batch[i]].metadata),
           generateNewName(Pool[batch[i]].metadata) \o ext) :
      i \in {j \in 1..Len(batch) : ~destRaises(Pool[batch[j]].metadata)},
      ext \in {ExtVideo, ExtSubtitle} }

\* -------------------------------------------- business-logic/organizer

\* The indexes of the files of one type, in input order.
IndexesOf(type) == SetToSeq({i \in 1..Len(files) : files[i].type = type})

\* videoFiles: { file, metadata: metadatas[i] } for every video, in input order.
videoFiles ==
  [k \in 1..Len(IndexesOf("video")) |->
     [file |-> files[IndexesOf("video")[k]],
      metadata |-> metadatas[IndexesOf("video")[k]]]]

\* subtitleFiles: { file } for every subtitle, in input order; parsed is what
\* parseFilename(file.name, file.path, scanPath) returns for it, which is the
\* value handleApply put into metadatas for a subtitle.
subtitleFiles ==
  [k \in 1..Len(IndexesOf("subtitle")) |->
     [file |-> files[IndexesOf("subtitle")[k]],
      parsed |-> metadatas[IndexesOf("subtitle")[k]]]]

\* let action = preview ? 'preview' : 'move'
initialAction(pv) == IF pv THEN "preview" ELSE "move"

\* if (!preview) await fs.ensureDir(destDir)
ensuresDir(pv) == ~pv

\* A faulty variant of asksResolver: a taken destination is never put to onConflict.
asksResolver_never(pv) == FALSE

\* Whether a taken destination is put to onConflict.
asksResolver(pv) == ~pv

\* A faulty variant of conflictAction: the resolver's answer is not used.
conflictAction_ignoresAnswer(pv, answer) == "overwrite"

\* A faulty variant of conflictAction: the resolver's answer is read the wrong way round.
conflictAction_inverted(pv, answer) ==
  IF pv THEN "overwrite"
  ELSE IF answer = "skip" THEN "overwrite" ELSE "skip"

\* The action of a file whose destination exists.
conflictAction(pv, answer) ==
  IF pv THEN "overwrite"
  ELSE IF answer = "skip" THEN "skip" ELSE "overwrite"

\* A faulty variant of shouldMove: the preview flag is not consulted.
shouldMove_ignoresPreview(pv, action) == action # "skip"

\* if (!preview && action !== 'skip')
shouldMove(pv, action) == ~pv /\ action # "skip"

\* { overwrite: action === 'overwrite' }
overwriteFlag(action) == action = "overwrite"

\* A faulty variant of catchesMoveError: the move is not wrapped in try/catch.
catchesMoveError_not == FALSE

\* try { move; saveFileMove } catch { console.error; continue }
catchesMoveError == TRUE

\* The directories ensureDir(dir) leaves in place: dir and its ancestors.
Ancestors(dir) == {SubSeq(dir, 1, k) : k \in 1..Len(dir)}

\* fs-extra move: raises when the source is missing, or when the destination
\* exists and overwrite is off.
moveRaises(src, dest, overwrite) ==
  \/ src \notin DOMAIN fsFiles
  \/ dest \in DOMAIN fsFiles /\ ~overwrite

\* The file system after a successful move.
moved(src, dest) ==
  [p \in (DOMAIN fsFiles \ {src}) \cup {dest} |->
     IF p = dest THEN fsFiles[src] ELSE fsFiles[p]]

\* A faulty variant of fileMove: the two paths are handed over in the wrong order.
fileMove_swapped(originalPath, newPath) ==
  [original_path |-> newPath, new_path |-> originalPath]

\* saveFileMove(originalPath, newPath): the row added to file_moves.
fileMove(originalPath, newPath) ==
  [original_path |-> originalPath, new_path |-> newPath]

ProcessedFile(file, newPath, metadata, action, errors) ==
  [originalPath |-> file.path, newPath |-> newPath, metadata |-> metadata,
   action |-> action, errors |-> errors]

\* organizeFiles raises: nothing is returned.
Raise(error) ==
  /\ pc' = "threw"
  /\ thrown' = error
  /\ UNCHANGED <<results, fsFiles, dirs, moveLog, conflictCalls, consoleErrors>>

\* The tail of a loop iteration once action and newPath are decided: the
\* move with its move-log record, and the push to results.
Finish(file, newPath, metadata, action, errors) ==
  IF shouldMove(preview, action)
  THEN \/ \* the move and the log record succeed
          /\ ~moveRaises(file.path, newPath, overwriteFlag(action))
          /\ fsFiles' = moved(file.path, newPath)
          /\ moveLog' = Append(moveLog, fileMove(file.path, newPath))
          /\ results' = Append(results, ProcessedFile(file, newPath, metadata, action, errors))
          /\ UNCHANGED <<consoleErrors, pc, thrown>>
       \/ \* fs.move raises (permission denied, ...): nothing has moved
          /\ UNCHANGED <<fsFiles, moveLog>>
          /\ IF catchesMoveError
             THEN /\ consoleErrors' = Append(consoleErrors,
                       [original |-> file.path, newPath |-> newPath, error |-> "MoveError"])
                  /\ UNCHANGED <<results, pc, thrown>>
             ELSE /\ pc' = "threw"
                  /\ thrown' = "MoveError"
                  /\ UNCHANGED <<results, consoleErrors>>
       \/ \* the file has moved and saveFileMove raises (store failure)
          /\ ~moveRaises(file.path, newPath, overwriteFlag(action))
          /\ fsFiles' = moved(file.path, newPath)
          /\ UNCHANGED moveLog
          /\ IF catchesMoveError
             THEN /\ consoleErrors' = Append(consoleErrors,
                       [original |-> file.path, newPath |-> newPath, error |-> "StoreError"])
                  /\ UNCHANGED <<results, pc, thrown>>
             ELSE /\ pc' = "threw"
                  /\ thrown' = "StoreError"
                  /\ UNCHANGED <<results, consoleErrors>>
  ELSE /\ results' = Append(results, ProcessedFile(file, newPath, metadata, action, errors))
       /\ UNCHANGED <<fsFiles, moveLog, consoleErrors, pc, thrown>>

\* A loop iteration for a file that is placed by `metadata`: destination,
\* ensureDir, existence check, conflict resolution, then Finish.
Place(file, metadata, errors) ==
  IF destRaises(metadata) THEN Raise("TypeError")
  ELSE
    LET destDir == destDirOf(metadata)
        newPath == newPathOf(metadata, file.extension)
        exists == newPath \in DOMAIN fsFiles
    IN  \/ \* fs.ensureDir raises (destination not writable)
           /\ ensuresDir(preview)
           /\ Raise("ensureDir")
        \/ /\ dirs' = IF ensuresDir(preview) THEN dirs \cup Ancestors(destDir) ELSE dirs
           /\ IF exists /\ asksResolver(preview)
              THEN \E answer \in {"skip", "overwrite"} :
                     /\ conflictCalls' = Append(conflictCalls,
                          [original |-> file.path, newPath |-> newPath, answer |-> answer])
                     /\ Finish(file, newPath, metadata, conflictAction(preview, answer), errors)
              ELSE /\ UNCHANGED conflictCalls
                   /\ Finish(file, newPath, metadata,
                             IF exists THEN conflictAction(preview, "none")
                             ELSE initialAction(preview),
                             errors)

\* One iteration of `for (let i = 0; i < videoFiles.length; i++)`.
OrganizeVideo ==
  /\ pc = "organize"
  /\ vidx <= Len(videoFiles)
  /\ LET file == videoFiles[vidx].file
         metadata == videoFiles[vidx].metadata
         errors == checkMetadataErrors(metadata)
     IN  IF errors # <<>>
         THEN /\ Finish(file, file.path, metadata, "skip", errors)
              /\ UNCHANGED <<dirs, conflictCalls>>
         ELSE Place(file, metadata, errors)
  /\ vidx' = IF pc' = "threw" THEN vidx ELSE vidx + 1
  /\ UNCHANGED <<files, metadatas, preview, sidx, previewResults, initialFiles,
                 fileMetadata, enrichVars, parseVars, sanitizeVars, revertVars, configVars>>

\* The videos a subtitle name is similar to, as indexes into videoFiles.
matchesOf(file) ==
  {k \in 1..Len(videoFiles) : isSimilarName(file.name, videoFiles[k].file.name)}

\* A faulty variant of matchedVideo: the last similar video wins.
matchedVideo_last(file) == CHOOSE k \in matchesOf(file) : \A j \in matchesOf(file) : j <= k

\* matchedVideo: the first similar video (break on the first hit).
matchedVideo(file) == CHOOSE k \in matchesOf(file) : \A j \in matchesOf(file) : k <= j

\* One iteration of `for (const { file } of subtitleFiles)`.
OrganizeSubtitle ==
  /\ pc = "organize"
  /\ vidx > Len(videoFiles)
  /\ sidx <= Len(subtitleFiles)
  /\ LET file == subtitleFiles[sidx].file
     IN  IF matchesOf(file) # {}
         THEN Place(file, videoFiles[matchedVideo(file)].metadata, <<>>)
         ELSE /\ results' = Append(results,
                   ProcessedFile(file, file.path, subtitleFiles[sidx].parsed, "skip", <<>>))
              /\ UNCHANGED <<fsFiles, dirs, moveLog, conflictCalls, consoleErrors, pc, thrown>>
  /\ sidx' = IF pc' = "threw" THEN sidx ELSE sidx + 1
  /\ UNCHANGED <<files, metadatas, preview, vidx, previewResults, initialFiles,
                 fileMetadata, enrichVars, parseVars, sanitizeVars, revertVars, configVars>>

\* `return results` of the preview run; handleApply displays them and asks.
ReturnPreview ==
  /\ pc = "organize" /\ preview
  /\ vidx > Len(videoFiles) /\ sidx > Len(subtitleFiles)
  /\ previewResults' = results
  /\ pc' = "confirm"
  /\ UNCHANGED <<files, metadatas, preview, vidx, sidx, results, fsFiles, dirs, moveLog,
                 conflictCalls, consoleErrors, thrown, initialFiles,
                 fileMetadata, enrichVars, parseVars, sanitizeVars, revertVars, configVars>>

\* The user confirms: handleApply calls organizeFiles again, preview = false.
Confirm ==
  /\ pc = "confirm"
  /\ pc' = "organize"
  /\ preview' = FALSE
  /\ vidx' = 1 /\ sidx' = 1
  /\ results' = <<>>
  /\ consoleErrors' = <<>>
  /\ UNCHANGED <<files, metadatas, previewResults, fsFiles, dirs, moveLog, conflictCalls,
                 thrown, initialFiles,
                 fileMetadata, enrichVars, parseVars, sanitizeVars, revertVars, configVars>>

\* The user declines: "Operation cancelled."
Cancel ==
  /\ pc = "confirm"
  /\ pc' = "cancelled"
  /\ UNCHANGED <<files, metadatas, preview, vidx, sidx, results, previewResults, fsFiles,
                 dirs, moveLog, conflictCalls, consoleErrors, thrown, initialFiles,
                 fileMetadata, enrichVars, parseVars, sanitizeVars, revertVars, configVars>>

\* `return results` of the apply run.
ReturnApply ==
  /\ pc = "organize" /\ ~preview
  /\ vidx > Len(videoFiles) /\ sidx > Len(subtitleFiles)
  /\ pc' = "done"
  /\ UNCHANGED <<files, metadatas, preview, vidx, sidx, results, previewResults, fsFiles,
                 dirs, moveLog, conflictCalls, consoleErrors, thrown, initialFiles,
                 fileMetadata, enrichVars, parseVars, sanitizeVars, revertVars, configVars>>

\* The state when handleApply starts its preview run.
Init ==
  \E b \in Batches :
    \E pre \in {P \in SUBSET DestCandidates(b) : Cardinality(P) <= MaxPreExisting} :
      /\ files = [i \in 1..Len(b) |-> Pool[b[i]].file]
      /\ metadatas = [i \in 1..Len(b) |-> Pool[b[i]].metadata]
      /\ fsFiles = [p \in {Pool[b[i]].file.path : i \in 1..Len(b)} \cup pre |->
                      IF p \in pre THEN OldContent ELSE p]
      /\ initialFiles = fsFiles
      /\ dirs = UNION {Ancestors(SubSeq(p, 1, Len(p) - 1)) : p \in pre}
      /\ preview = TRUE
      /\ pc = "organize"
      /\ vidx = 1 /\ sidx = 1
      /\ results = <<>>
      /\ previewResults = <<>>
      /\ moveLog = <<>>
      /\ conflictCalls = <<>>
      /\ consoleErrors = <<>>
      /\ thrown = "none"
      /\ fileMetadata = NoMetadata
      /\ EnrichAtRest
      /\ ParseAtRest
      /\ SanitizeAtRest
      /\ ConfigAtRest
      /\ RevertAtRest

Next ==
  \/ OrganizeVideo
  \/ OrganizeSubtitle
  \/ ReturnPreview
  \/ Confirm
  \/ Cancel
  \/ ReturnApply

Spec == Init /\ [][Next]_vars

\* ------------------------------------------------------ action/apply
\* handleApply, from the scan to the end of the apply run: "Step 4: Process
\* files" builds metadatas one file at a time, "Step 5" previews the whole
\* batch, "Step 6" organizes the whole batch.

\* The fields of core-data/parser's MediaMetadata.
MediaMetadataFields == {"title", "year", "season", "episode", "type"}

\* The pool entry of a scanned file.
PoolEntry(file) == Pool[CHOOSE k \in 1..Len(Pool) : Pool[k].file = file]

\* const metadata = parseFilename(file.name, file.path, scanPath): the
\* MediaMetadata fields of what the batch holds for the file.
parsedMetadata(file) ==
  LET m == PoolEntry(file).metadata
  IN  [f \in DOMAIN m \cap MediaMetadataFields |-> m[f]]

\* enriched = await enrichMetadata(metadata) for a video, { ...metadata }
\* for a subtitle.
enrichedMetadata(file, metadata) ==
  IF file.type = "video" THEN PoolEntry(file).metadata ELSE metadata

nextFile_lastFirst == Len(files) - Len(metadatas)

\* for (const file of mediaFiles): the index of the file the loop is at;
\* metadatas holds one entry per file already processed.
nextFile == Len(metadatas) + 1

\* const metadata = parseFilename(file.name, file.path, scanPath)
ParseFile ==
  /\ pc = "parse"
  /\ fileMetadata' = parsedMetadata(files[nextFile])
  /\ pc' = "enrich"
  /\ UNCHANGED <<files, metadatas, preview, vidx, sidx, results, previewResults, fsFiles,
                 dirs, moveLog, conflictCalls, consoleErrors, thrown, initialFiles,
                 enrichVars, parseVars, sanitizeVars, revertVars, configVars>>

\* enriched = ...; metadatas.push(enriched); after the last file handleApply
\* goes on to organizeFiles(..., true, scanPath).
EnrichFile ==
  /\ pc = "enrich"
  /\ metadatas' = Append(metadatas, enrichedMetadata(files[nextFile], fileMetadata))
  /\ fileMetadata' = NoMetadata
  /\ pc' = IF Len(metadatas') = Len(files) THEN "organize" ELSE "parse"
  /\ UNCHANGED <<files, preview, vidx, sidx, results, previewResults, fsFiles,
                 dirs, moveLog, conflictCalls, consoleErrors, thrown, initialFiles,
                 enrichVars, parseVars, sanitizeVars, revertVars, configVars>>

\* The state after scanMediaFiles returned a non-empty list.
InitApply ==
  \E b \in Batches :
    \E pre \in {P \in SUBSET DestCandidates(b) : Cardinality(P) <= MaxPreExisting} :
      /\ files = [i \in 1..Len(b) |-> Pool[b[i]].file]
      /\ metadatas = <<>>
      /\ fsFiles = [p \in {Pool[b[i]].file.path : i \in 1..Len(b)} \cup pre |->
                      IF p \in pre THEN OldContent ELSE p]
      /\ initialFiles = fsFiles
      /\ dirs = UNION {Ancestors(SubSeq(p, 1, Len(p) - 1)) : p \in pre}
      /\ preview = TRUE
      /\ pc = "parse"
      /\ vidx = 1 /\ sidx = 1
      /\ results = <<>>
      /\ previewResults = <<>>
      /\ moveLog = <<>>
      /\ conflictCalls = <<>>
      /\ consoleErrors = <<>>
      /\ thrown = "none"
      /\ fileMetadata = NoMetadata
      /\ EnrichAtRest
      /\ ParseAtRest
      /\ SanitizeAtRest
      /\ ConfigAtRest
      /\ RevertAtRest

NextApply ==
  \/ ParseFile
  \/ EnrichFile
  \/ OrganizeVideo
  \/ OrganizeSubtitle
  \/ ReturnPreview
  \/ Confirm
  \/ Cancel
  \/ ReturnApply

SpecApply == InitApply /\ [][NextApply]_vars

\* --------------------------------------------- infrastructure/api (values)

\* The fields of the metadata objects are title, year, season, episode and
\* type; of the fields enrichMetadata adds, plot and episodeTitle are kept
\* (genre, director, actors and imdbRating are copied exactly like plot).

\* obj.f = v on a copy of obj.
With(obj, f, v) == [k \in DOMAIN obj \cup {f} |-> IF k = f THEN v ELSE obj[k]]

\* Map.set / INSERT OR REPLACE under a UNIQUE key.
Put(table, key, row) ==
  [k \in DOMAIN table \cup {key} |-> IF k = key THEN row ELSE table[k]]

\* String(x.f || '') and Number(x.f || 0) as the save functions apply them.
StringOr(x, f) == IF Has(x, f) THEN x[f] ELSE <<>>
NumberOr(x, f) == IF Has(x, f) THEN x[f] ELSE 0

EndsWith(s, suffix) ==
  Len(s) >= Len(suffix) /\ SubSeq(s, Len(s) - Len(suffix) + 1, Len(s)) = suffix

RECURSIVE ParseInt(_)
\* parseInt of a string of decimal digits.
ParseInt(s) ==
  IF s = <<>> THEN 0
  ELSE 10 * ParseInt(SubSeq(s, 1, Len(s) - 1))
       + (CHOOSE d \in 0..9 : Digit(d) = s[Len(s)])

\* searchAndResolveImdbID: `${title}${year ? `_${year}` : ''}`
cacheKey(metadata) ==
  TemplateStr(metadata, "title")
    \o (IF TruthyNum(metadata, "year") THEN <<"_">> \o NumToStr(metadata.year) ELSE <<>>)

\* title.replace(/\s*\(Year\)\s*$/, '')
RemoveParenYear(title, year) ==
  LET t == StripRight(title, WhiteSpace)
      suffix == <<"(">> \o year \o <<")">>
  IN  IF EndsWith(t, suffix)
      THEN StripRight(SubSeq(t, 1, Len(t) - Len(suffix)), WhiteSpace)
      ELSE title

\* title.replace(/\s+Year\s*$/, '')
RemoveSpaceYear(title, year) ==
  LET t == StripRight(title, WhiteSpace)
      rest == SubSeq(t, 1, Len(t) - Len(year))
  IN  IF EndsWith(t, year) /\ rest # <<>> /\ rest[Len(rest)] \in WhiteSpace
      THEN StripRight(rest, WhiteSpace)
      ELSE title

\* enrichMetadata, movie branch: data.Title after the year has been removed.
cleanMovieTitle(data) ==
  IF Has(data, "Year") /\ data.Year # <<>> /\ Has(data, "Title") /\ data.Title # <<>>
  THEN LET first == Trim(RemoveParenYear(data.Title, data.Year))
       IN  IF first # data.Title THEN first
           ELSE Trim(RemoveSpaceYear(first, data.Year))
  ELSE StringOr(data, "Title")

\* saveMovie / saveTVShow: the row written for an OMDB response.
movieRow(data) ==
  [imdbID |-> StringOr(data, "imdbID"), title |-> StringOr(data, "Title"),
   year |-> StringOr(data, "Year"), plot |-> StringOr(data, "Plot")]

tvShowRow(data) ==
  [imdbID |-> StringOr(data, "imdbID"), title |-> StringOr(data, "Title"),
   year |-> StringOr(data, "Year"), plot |-> StringOr(data, "Plot")]

\* saveTVEpisodeBatch: the row written for one element of the batch. Title,
\* Season, Episode and Plot are read under their capitalized names.
episodeRow(episode) ==
  [imdbID |-> StringOr(episode, "imdbID"), seriesID |-> StringOr(episode, "seriesID"),
   title |-> StringOr(episode, "Title"), season |-> NumberOr(episode, "Season"),
   episode |-> NumberOr(episode, "Episode"), plot |-> StringOr(episode, "Plot")]

RECURSIVE saveTVEpisodeBatch(_, _)
\* The table after the rows of the batch have been inserted in order.
saveTVEpisodeBatch(table, episodes) ==
  IF episodes = <<>> THEN table
  ELSE LET row == episodeRow(Head(episodes))
       IN  saveTVEpisodeBatch(Put(table, row.imdbID, row), Tail(episodes))

\* getTVEpisode: the rows WHERE seriesID = ? AND season = ? AND episode = ?
episodeKeys(table, seriesID, season, episode) ==
  {k \in DOMAIN table : /\ table[k].seriesID = seriesID
                        /\ table[k].season = season
                        /\ table[k].episode = episode}

getTVEpisode(table, seriesID, season, episode) ==
  table[CHOOSE k \in episodeKeys(table, seriesID, season, episode) : TRUE]

\* A faulty variant of seasonEpisode: the keys are written in lower case.
seasonEpisode_lowerCase(ep, seriesImdbID, season) ==
  [imdbID |-> ep.imdbID, seriesID |-> seriesImdbID, title |-> ep.Title,
   season |-> season, episode |-> ParseInt(ep.Episode), plot |-> ep.Plot]
\* fetchAndStoreTVSeason: one element of seasonData.Episodes as it is handed
\* to saveTVEpisodeBatch.
seasonEpisode(ep, seriesImdbID, season) ==
  [imdbID |-> ep.imdbID, seriesID |-> seriesImdbID, Title |-> ep.Title,
   Season |-> season, Episode |-> ParseInt(ep.Episode), Plot |-> ep.Plot]

\* fetchTmdbEpisode: the EpisodeData built from a TMDB response.
tmdbEpisodeData(data, seriesTmdbId, season, episode) ==
  [imdbID |-> <<"t","m","d","b","_">> \o NumToStr(data.id),
   seriesID |-> <<"t","m","d","b","_">> \o NumToStr(seriesTmdbId),
   title |-> StringOr(data, "name"), season |-> season, episode |-> episode,
   plot |-> StringOr(data, "overview")]

\* ------------------------------------------- the providers and the inputs

\* What the two providers know. OMDB (primary): the series "Ab" with the
\* episodes 1 and 2 of season 1, and the movie "Zq (2021)". TMDB (secondary):
\* the series "Ab" with episode 3 of season 1.
idAb == <<"t","t","1">>
idZq == <<"t","t","2">>
NotFound == [Response |-> "False"]

\* GET ?t=title&y=year
omdbTitleLookup(metadata) ==
  LET title == IF Has(metadata, "title") THEN ToLowerCase(metadata.title) ELSE StrUndefined
  IN  IF title = <<"a","b">> /\ ~TruthyNum(metadata, "year")
      THEN [Response |-> "True", imdbID |-> idAb]
      ELSE IF title = <<"z","q">> /\ (~TruthyNum(metadata, "year") \/ metadata.year = 2021)
      THEN [Response |-> "True", imdbID |-> idZq]
      ELSE NotFound

\* GET ?i=imdbID&plot=short
omdbFetch(id) ==
  IF id = idAb
  THEN [Response |-> "True", imdbID |-> idAb, Type |-> "series", Title |-> <<"A","b">>,
        Year |-> <<"2","0","2","0">>, Plot |-> <<"s">>]
  ELSE IF id = idZq
  THEN [Response |-> "True", imdbID |-> idZq, Type |-> "movie",
        Title |-> <<"Z","q"," ","(","2","0","2","1",")">>,
        Year |-> <<"2","0","2","1">>, Plot |-> <<"m">>]
  ELSE NotFound

\* GET ?i=seriesImdbID&Season=season
omdbSeason(id, season) ==
  IF id = idAb /\ season = 1
  THEN [Response |-> "True",
        Episodes |-> << [imdbID |-> <<"t","t","1","1">>, Title |-> <<"E","1">>,
                         Episode |-> <<"1">>, Plot |-> <<"x">>],
                        [imdbID |-> <<"t","t","1","2">>, Title |-> <<"E","2">>,
                         Episode |-> <<"2">>, Plot |-> <<"y">>] >>]
  ELSE NotFound

\* GET /search/tv?query=title: data.results
tmdbSearchTV(metadata) ==
  IF Has(metadata, "title") /\ ToLowerCase(metadata.title) = <<"a","b">>
  THEN << [id |-> 7] >> ELSE <<>>

\* GET /tv/{id}/season/{season}/episode/{episode}
tmdbEpisode(seriesTmdbId, season, episode) ==
  IF seriesTmdbId = 7 /\ season = 1 /\ episode = 3
  THEN [id |-> 73, name |-> <<"N","3">>, overview |-> <<"o">>]
  ELSE [status_code |-> 34]

\* How a request ends: the provider's answer arrives, the provider answers
\* with an error document, or fetch / response.json() raises.
Net == {"ok", "refused", "error"}

\* How a store statement ends.
StoreOutcome == {"ok", "error"}

\* The metadata objects the parser hands to enrichMetadata.
EnrichInputs ==
  { [type |-> "tv", title |-> <<"a","b">>, season |-> 1, episode |-> 1],
    [type |-> "tv", title |-> <<"a","b">>, season |-> 1, episode |-> 3],
    [type |-> "tv", title |-> <<"a","b">>, season |-> 1, episode |-> 0],
    [type |-> "tv", title |-> <<"a","b">>],
    [type |-> "movie", title |-> <<"z","q">>, year |-> 2021],
    [type |-> "movie", title |-> <<"a","b">>],
    [type |-> "tv", title |-> <<"z","q">>, year |-> 2021, season |-> 1, episode |-> 1],
    [type |-> "movie", title |-> <<"n","n">>],
    [type |-> "movie"] }

\* The store at start: new, or holding the series from an earlier run.
InitialShows == {Empty, Put(Empty, idAb, tvShowRow(omdbFetch(idAb)))}

\* One entry of ioTrace.
Io(op, arg, outcome) == [op |-> op, arg |-> arg, outcome |-> outcome]

\* The entries of ioTrace the current call has added.
CallTrace == {i \in 1..Len(ioTrace) : i > callStart}
ProviderOps == {"omdbTitleLookup", "omdbFetch", "omdbSeason", "tmdbSearchTV", "tmdbEpisode"}
SecondaryOps == {"tmdbSearchTV", "tmdbEpisode"}
StoreOps == {"getMovieByImdbID", "getTVShowByImdbID", "getTVEpisode", "saveMovie",
             "saveTVShow", "saveTVEpisodeBatch"}

\* --------------------------------------------------- infrastructure/api

\* A faulty variant of catchesEnrichError: the body is not wrapped in try/catch.
catchesEnrichError_not == FALSE
\* enrichMetadata wraps its body in try/catch and returns `enriched` from
\* after the catch.
catchesEnrichError == TRUE

\* Where a call stands after an error was raised inside the try block.
AfterError(error) ==
  IF catchesEnrichError THEN [pc |-> "returned", thrown |-> "none"]
  ELSE [pc |-> "threw", thrown |-> error]

\* The outcome of a request as the trace records it.
Answer(net, usable) ==
  IF net = "error" THEN "error" ELSE IF net = "ok" /\ usable THEN "ok" ELSE "notFound"

\* metadata.season && metadata.episode
wantsEpisode(metadata) == TruthyNum(metadata, "season") /\ TruthyNum(metadata, "episode")

\* A faulty variant of withEpisode: the episode title is not copied.
withEpisode_plotOnly(e, episode) == With(e, "plot", episode.plot)
\* enriched after the fields of an episode row (or EpisodeData) were copied.
withEpisode(e, episode) == With(With(e, "plot", episode.plot), "episodeTitle", episode.title)

\* A faulty variant of metadataAfter: enriched is the caller's object itself.
metadataAfter_sameObject(metadata, written) == written
\* const enriched = { ...metadata }: enriched is a new object, so the caller's
\* metadata is what it was whatever has been written to enriched.
metadataAfter(metadata, written) == metadata

\* handleApply calls enrichMetadata(metadata) for the next file.
EnrichStart ==
  /\ ePc = "idle"
  /\ eCalls < MaxEnrichCalls
  /\ \E metadata \in EnrichInputs :
       /\ eInput' = metadata
       /\ enriched' = metadata
  /\ ePc' = "resolve"
  /\ imdbID' = <<>>
  /\ tmdbSeriesId' = 0
  /\ eBranch' = "none"
  /\ callStart' = Len(ioTrace)
  /\ eHistory' = Append(eHistory, [metadata |-> eInput', start |-> Len(ioTrace)])
  /\ UNCHANGED <<searchCache, movies, tv_show, tv_show_episode, ioTrace, eCalls, eThrown>>
  /\ UNCHANGED <<orgVars, parseVars, sanitizeVars, revertVars, configVars>>

\* const imdbID = await searchAndResolveImdbID(metadata.title, metadata.year)
searchAndResolveImdbID ==
  /\ ePc = "resolve"
  /\ LET key == cacheKey(eInput) IN
     IF key \in DOMAIN searchCache
     THEN /\ imdbID' = searchCache[key].imdbID
          /\ ePc' = "lookup"
          /\ UNCHANGED <<searchCache, ioTrace, eThrown>>
     ELSE \E net \in Net :
            LET searchData == IF net = "ok" THEN omdbTitleLookup(eInput) ELSE NotFound
                found == searchData.Response = "True"
            IN  /\ ioTrace' = Append(ioTrace, Io("omdbTitleLookup", key, Answer(net, found)))
                /\ IF net = "error"
                   THEN /\ ePc' = AfterError("NetworkError").pc
                        /\ eThrown' = AfterError("NetworkError").thrown
                        /\ UNCHANGED <<searchCache, imdbID>>
                   ELSE IF found
                   THEN /\ searchCache' = Put(searchCache, key, searchData)
                        /\ imdbID' = searchData.imdbID
                        /\ ePc' = "lookup"
                        /\ UNCHANGED eThrown
                   ELSE /\ ePc' = "returned"
                        /\ UNCHANGED <<searchCache, imdbID, eThrown>>
  /\ UNCHANGED <<enriched, tmdbSeriesId, eBranch, movies, tv_show, tv_show_episode,
                 callStart, eHistory, eCalls>>
  /\ UNCHANGED <<orgVars, parseVars, sanitizeVars, revertVars, configVars>>
  /\ eInput' = metadataAfter(eInput, enriched')

\* "Check if data already exists in database": the movie branch.
LookupMovie ==
  /\ ePc = "lookup"
  /\ eInput.type = "movie"
  /\ \E st \in StoreOutcome :
       IF st = "error"
       THEN /\ ioTrace' = Append(ioTrace, Io("getMovieByImdbID", imdbID, "error"))
            /\ ePc' = AfterError("StoreError").pc
            /\ eThrown' = AfterError("StoreError").thrown
            /\ UNCHANGED enriched
       ELSE IF imdbID \in DOMAIN movies
       THEN /\ ioTrace' = Append(ioTrace, Io("getMovieByImdbID", imdbID, "hit"))
            /\ enriched' = With(With(enriched, "title", movies[imdbID].title),
                                "plot", movies[imdbID].plot)
            /\ ePc' = "returned"
            /\ UNCHANGED eThrown
       ELSE /\ ioTrace' = Append(ioTrace, Io("getMovieByImdbID", imdbID, "miss"))
            /\ ePc' = "fetch"
            /\ UNCHANGED <<enriched, eThrown>>
  /\ UNCHANGED <<imdbID, tmdbSeriesId, eBranch, searchCache, movies, tv_show,
                 tv_show_episode, callStart, eHistory, eCalls>>
  /\ UNCHANGED <<orgVars, parseVars, sanitizeVars, revertVars, configVars>>
  /\ eInput' = metadataAfter(eInput, enriched')

\* "Check if data already exists in database": the series branch, up to the
\* first getTVEpisode.
LookupSeries ==
  /\ ePc = "lookup"
  /\ eInput.type # "movie"
  /\ \E st \in StoreOutcome, st2 \in StoreOutcome :
       LET readShow(outcome) == Io("getTVShowByImdbID", imdbID, outcome)
           readEpisode(outcome) == Io("getTVEpisode", imdbID, outcome)
           titled == With(enriched, "title", tv_show[imdbID].title)
       IN
       IF st = "error"
       THEN /\ ioTrace' = Append(ioTrace, readShow("error"))
            /\ ePc' = AfterError("StoreError").pc
            /\ eThrown' = AfterError("StoreError").thrown
            /\ UNCHANGED <<enriched, eBranch>>
       ELSE IF imdbID \notin DOMAIN tv_show
       THEN /\ ioTrace' = Append(ioTrace, readShow("miss"))
            /\ ePc' = "fetch"
            /\ UNCHANGED <<enriched, eBranch, eThrown>>
       ELSE IF ~wantsEpisode(eInput)
       THEN /\ ioTrace' = Append(ioTrace, readShow("hit"))
            /\ enriched' = With(titled, "plot", tv_show[imdbID].plot)
            /\ ePc' = "returned"
            /\ UNCHANGED <<eBranch, eThrown>>
       ELSE IF st2 = "error"
       THEN /\ ioTrace' = ioTrace \o <<readShow("hit"), readEpisode("error")>>
            /\ enriched' = titled
            /\ ePc' = AfterError("StoreError").pc
            /\ eThrown' = AfterError("StoreError").thrown
            /\ UNCHANGED eBranch
       ELSE IF episodeKeys(tv_show_episode, imdbID, eInput.season, eInput.episode) # {}
       THEN /\ ioTrace' = ioTrace \o <<readShow("hit"), readEpisode("hit")>>
            /\ enriched' = withEpisode(titled, getTVEpisode(tv_show_episode, imdbID,
                                                            eInput.season, eInput.episode))
            /\ ePc' = "returned"
            /\ UNCHANGED <<eBranch, eThrown>>
       ELSE /\ ioTrace' = ioTrace \o <<readShow("hit"), readEpisode("miss")>>
            /\ enriched' = titled
            /\ ePc' = "season"
            /\ eBranch' = "store"
            /\ UNCHANGED eThrown
  /\ UNCHANGED <<imdbID, tmdbSeriesId, searchCache, movies, tv_show, tv_show_episode,
                 callStart, eHistory, eCalls>>
  /\ UNCHANGED <<orgVars, parseVars, sanitizeVars, revertVars, configVars>>
  /\ eInput' = metadataAfter(eInput, enriched')

\* "Data not in database, fetch from OMDB": the request by id and what
\* follows it up to the call of fetchAndStoreTVSeason.
FetchById ==
  /\ ePc = "fetch"
  /\ \E net \in Net, st \in StoreOutcome, st2 \in StoreOutcome :
       LET data == IF net = "ok" THEN omdbFetch(imdbID) ELSE NotFound
           found == data.Response = "True"
           request == Io("omdbFetch", imdbID, Answer(net, found))
           cleaned == With(data, "Title", cleanMovieTitle(data))
           titled(d) == IF d.Title # <<>> THEN With(enriched, "title", d.Title) ELSE enriched
       IN
       IF net = "error"
       THEN /\ ioTrace' = Append(ioTrace, request)
            /\ ePc' = AfterError("NetworkError").pc
            /\ eThrown' = AfterError("NetworkError").thrown
            /\ UNCHANGED <<enriched, eBranch, movies, tv_show>>
       ELSE IF ~found \/ data.Type \notin {"movie", "series"}
       THEN /\ ioTrace' = Append(ioTrace, request)
            /\ ePc' = "returned"
            /\ UNCHANGED <<enriched, eBranch, movies, tv_show, eThrown>>
       ELSE IF st = "error"
       THEN /\ ioTrace' = ioTrace \o
                 <<request, Io(IF data.Type = "movie" THEN "saveMovie" ELSE "saveTVShow",
                               imdbID, "error")>>
            /\ ePc' = AfterError("StoreError").pc
            /\ eThrown' = AfterError("StoreError").thrown
            /\ UNCHANGED <<enriched, eBranch, movies, tv_show>>
       ELSE IF data.Type = "movie"
       THEN /\ movies' = Put(movies, movieRow(cleaned).imdbID, movieRow(cleaned))
            /\ UNCHANGED <<tv_show, eBranch>>
            /\ IF st2 = "error"
               THEN /\ ioTrace' = ioTrace \o <<request, Io("saveMovie", imdbID, "ok"),
                                              Io("getMovieByImdbID", imdbID, "error")>>
                    /\ ePc' = AfterError("StoreError").pc
                    /\ eThrown' = AfterError("StoreError").thrown
                    /\ UNCHANGED enriched
               ELSE /\ ioTrace' = ioTrace \o <<request, Io("saveMovie", imdbID, "ok"),
                                              Io("getMovieByImdbID", imdbID, "hit")>>
                    /\ enriched' = With(titled(cleaned), "plot", data.Plot)
                    /\ ePc' = "returned"
                    /\ UNCHANGED eThrown
       ELSE /\ tv_show' = Put(tv_show, tvShowRow(data).imdbID, tvShowRow(data))
            /\ ioTrace' = ioTrace \o <<request, Io("saveTVShow", imdbID, "ok")>>
            /\ UNCHANGED <<movies, eThrown>>
            /\ IF wantsEpisode(eInput)
               THEN /\ enriched' = titled(data)
                    /\ ePc' = "season"
                    /\ eBranch' = "fetched"
               ELSE /\ enriched' = With(titled(data), "plot", data.Plot)
                    /\ ePc' = "returned"
                    /\ UNCHANGED eBranch
  /\ UNCHANGED <<imdbID, tmdbSeriesId, searchCache, tv_show_episode, callStart, eHistory,
                 eCalls>>
  /\ UNCHANGED <<orgVars, parseVars, sanitizeVars, revertVars, configVars>>
  /\ eInput' = metadataAfter(eInput, enriched')

\* await fetchAndStoreTVSeason(imdbID, metadata.season, apiKey): it catches
\* whatever is raised inside it. A failing insert leaves the rows inserted
\* before it.
fetchAndStoreTVSeason ==
  /\ ePc = "season"
  /\ \E st \in StoreOutcome, net \in Net :
       LET seasonData == IF net = "ok" THEN omdbSeason(imdbID, eInput.season) ELSE NotFound
           found == seasonData.Response = "True" /\ Has(seasonData, "Episodes")
           request == Io("omdbSeason", imdbID \o <<"/">> \o NumToStr(eInput.season),
                         Answer(net, found))
           episodes == [i \in 1..Len(seasonData.Episodes) |->
                          seasonEpisode(seasonData.Episodes[i], imdbID, eInput.season)]
       IN
       IF st = "error"
       THEN /\ ioTrace' = Append(ioTrace, Io("getTVShowByImdbID", imdbID, "error"))
            /\ UNCHANGED tv_show_episode
       ELSE IF imdbID \notin DOMAIN tv_show
       THEN /\ ioTrace' = Append(ioTrace, Io("getTVShowByImdbID", imdbID, "miss"))
            /\ UNCHANGED tv_show_episode
       ELSE IF net = "error" \/ ~found
       THEN /\ ioTrace' = ioTrace \o <<Io("getTVShowByImdbID", imdbID, "hit"), request>>
            /\ UNCHANGED tv_show_episode
       ELSE \E inserted \in 0..Len(episodes) :
              /\ ioTrace' = ioTrace \o
                   <<Io("getTVShowByImdbID", imdbID, "hit"), request,
                     Io("saveTVEpisodeBatch", imdbID,
                        IF inserted = Len(episodes) THEN "ok" ELSE "error")>>
              /\ tv_show_episode' =
                   saveTVEpisodeBatch(tv_show_episode, SubSeq(episodes, 1, inserted))
  /\ ePc' = "reread"
  /\ UNCHANGED <<enriched, imdbID, tmdbSeriesId, eBranch, searchCache, movies,
                 tv_show, callStart, eHistory, eCalls, eThrown>>
  /\ UNCHANGED <<orgVars, parseVars, sanitizeVars, revertVars, configVars>>
  /\ eInput' = metadataAfter(eInput, enriched')

\* getTVEpisode after fetchAndStoreTVSeason; the branch that found the series
\* in the store goes on to TMDB when the episode is still missing.
RereadEpisode ==
  /\ ePc = "reread"
  /\ \E st \in StoreOutcome :
       IF st = "error"
       THEN /\ ioTrace' = Append(ioTrace, Io("getTVEpisode", imdbID, "error"))
            /\ ePc' = AfterError("StoreError").pc
            /\ eThrown' = AfterError("StoreError").thrown
            /\ UNCHANGED enriched
       ELSE IF episodeKeys(tv_show_episode, imdbID, eInput.season, eInput.episode) # {}
       THEN /\ ioTrace' = Append(ioTrace, Io("getTVEpisode", imdbID, "hit"))
            /\ enriched' = withEpisode(enriched, getTVEpisode(tv_show_episode, imdbID,
                                                              eInput.season, eInput.episode))
            /\ ePc' = "returned"
            /\ UNCHANGED eThrown
       ELSE /\ ioTrace' = Append(ioTrace, Io("getTVEpisode", imdbID, "miss"))
            /\ ePc' = IF eBranch = "store" THEN "tmdbSearch" ELSE "returned"
            /\ UNCHANGED <<enriched, eThrown>>
  /\ UNCHANGED <<imdbID, tmdbSeriesId, eBranch, searchCache, movies, tv_show,
                 tv_show_episode, callStart, eHistory, eCalls>>
  /\ UNCHANGED <<orgVars, parseVars, sanitizeVars, revertVars, configVars>>
  /\ eInput' = metadataAfter(eInput, enriched')

\* const tmdbSeriesId = await searchTmdbTVShow(metadata.title, metadata.year)
searchTmdbTVShow ==
  /\ ePc = "tmdbSearch"
  /\ \E net \in Net :
       LET found == IF net = "ok" THEN tmdbSearchTV(eInput) ELSE <<>>
       IN  /\ ioTrace' = Append(ioTrace, Io("tmdbSearchTV", cacheKey(eInput),
                                            Answer(net, found # <<>>)))
           /\ IF found # <<>>
              THEN /\ tmdbSeriesId' = found[1].id
                   /\ ePc' = "tmdbEpisode"
              ELSE /\ ePc' = "returned"
                   /\ UNCHANGED tmdbSeriesId
  /\ UNCHANGED <<enriched, imdbID, eBranch, searchCache, movies, tv_show,
                 tv_show_episode, callStart, eHistory, eCalls, eThrown>>
  /\ UNCHANGED <<orgVars, parseVars, sanitizeVars, revertVars, configVars>>
  /\ eInput' = metadataAfter(eInput, enriched')

\* await fetchTmdbEpisode(tmdbSeriesId, season, episode), saveTVEpisodeBatch of
\* its result and the copy into enriched.
fetchTmdbEpisode ==
  /\ ePc = "tmdbEpisode"
  /\ \E net \in Net, st \in StoreOutcome :
       LET data == IF net = "ok" THEN tmdbEpisode(tmdbSeriesId, eInput.season, eInput.episode)
                   ELSE [status_code |-> 34]
           found == Has(data, "id")
           request == Io("tmdbEpisode", NumToStr(tmdbSeriesId), Answer(net, found))
           episodeData == tmdbEpisodeData(data, tmdbSeriesId, eInput.season, eInput.episode)
       IN
       IF net = "error" \/ ~found
       THEN /\ ioTrace' = Append(ioTrace, request)
            /\ ePc' = "returned"
            /\ UNCHANGED <<enriched, tv_show_episode, eThrown>>
       ELSE IF st = "error"
       THEN /\ ioTrace' = ioTrace \o <<request, Io("saveTVEpisodeBatch", imdbID, "error")>>
            /\ ePc' = AfterError("StoreError").pc
            /\ eThrown' = AfterError("StoreError").thrown
            /\ UNCHANGED <<enriched, tv_show_episode>>
       ELSE /\ ioTrace' = ioTrace \o <<request, Io("saveTVEpisodeBatch", imdbID, "ok")>>
            /\ tv_show_episode' = saveTVEpisodeBatch(tv_show_episode, <<episodeData>>)
            /\ enriched' = withEpisode(enriched, episodeData)
            /\ ePc' = "returned"
            /\ UNCHANGED eThrown
  /\ UNCHANGED <<imdbID, tmdbSeriesId, eBranch, searchCache, movies, tv_show,
                 callStart, eHistory, eCalls>>
  /\ UNCHANGED <<orgVars, parseVars, sanitizeVars, revertVars, configVars>>
  /\ eInput' = metadataAfter(eInput, enriched')

\* `return enriched`: handleApply goes on with the next file.
EnrichReturn ==
  /\ ePc = "returned"
  /\ ePc' = "idle"
  /\ eCalls' = eCalls + 1
  /\ UNCHANGED <<eInput, enriched, imdbID, tmdbSeriesId, eBranch, searchCache, movies,
                 tv_show, tv_show_episode, ioTrace, callStart, eHistory, eThrown>>
  /\ UNCHANGED <<orgVars, parseVars, sanitizeVars, revertVars, configVars>>

\* The state when handleApply starts to enrich the scanned files.
InitEnrich ==
  /\ OrganizerAtRest
  /\ ParseAtRest
  /\ SanitizeAtRest
  /\ ConfigAtRest
  /\ RevertAtRest
  /\ ePc = "idle"
  /\ eInput = NoMetadata
  /\ enriched = NoMetadata
  /\ imdbID = <<>>
  /\ tmdbSeriesId = 0
  /\ eBranch = "none"
  /\ searchCache = Empty
  /\ movies = Empty
  /\ tv_show \in InitialShows
  /\ tv_show_episode = Empty
  /\ ioTrace = <<>>
  /\ callStart = 0
  /\ eHistory = <<>>
  /\ eCalls = 0
  /\ eThrown = "none"

NextEnrich ==
  \/ EnrichStart
  \/ searchAndResolveImdbID
  \/ LookupMovie
  \/ LookupSeries
  \/ FetchById
  \/ fetchAndStoreTVSeason
  \/ RereadEpisode
  \/ searchTmdbTVShow
  \/ fetchTmdbEpisode
  \/ EnrichReturn

SpecEnrich == InitEnrich /\ [][NextEnrich]_vars

\* ------------------------------------- core-data/parser: parseFilename

IsDigit(c) == \E d \in 0..9 : Digit(d) = c
AllDigits(s) == \A i \in 1..Len(s) : IsDigit(s[i])
AllSpace(s) == \A i \in 1..Len(s) : s[i] \in WhiteSpace

\* s without the characters at the positions of drop.
RECURSIVE WithoutPositions(_, _)
WithoutPositions(s, drop) ==
  IF s = <<>> THEN <<>>
  ELSE WithoutPositions(SubSeq(s, 1, Len(s) - 1), drop)
       \o (IF Len(s) \in drop THEN <<>> ELSE <<s[Len(s)]>>)

\* name.replace(/S(\d+)EP(\d+)/g, 'S$1E$2'): every P of an S<digits>EP<digit>
\* is dropped.
normalizeName(name) ==
  WithoutPositions(name,
    {p \in 4..(Len(name) - 1) :
       /\ name[p] = "P" /\ name[p - 1] = "E" /\ IsDigit(name[p + 1])
       /\ \E i \in 1..(p - 3) : name[i] = "S" /\ AllDigits(SubSeq(name, i + 1, p - 2))})

\* /S\d+/i.test(s)
hasSeasonToken(s) ==
  \E i \in 1..(Len(s) - 1) : LowerOf(s[i]) = "s" /\ IsDigit(s[i + 1])

\* /Season \d+/i.test(s)
hasSeasonWord(s) ==
  \E i \in 1..(Len(s) - 7) :
    /\ ToLowerCase(SubSeq(s, i, i + 6)) = <<"s","e","a","s","o","n"," ">>
    /\ IsDigit(s[i + 7])

\* The positions at which a match of S\d+(E\d+)? (case-insensitive) that
\* starts at position i of s can end.
SeasonTokenEnds(s, i) ==
  IF i > Len(s) \/ LowerOf(s[i]) # "s" THEN {}
  ELSE LET seasonEnds == {d \in (i + 1)..Len(s) : AllDigits(SubSeq(s, i + 1, d))}
       IN  seasonEnds \cup
           {e \in 1..Len(s) :
              \E d \in seasonEnds :
                d + 2 <= e /\ LowerOf(s[d + 1]) = "e" /\ AllDigits(SubSeq(s, d + 2, e))}

\* /^S\d+(E\d+)?$/i.test(s)
isSeasonToken(s) == Len(s) \in SeasonTokenEnds(s, 1)

\* The release words of the two clean-up patterns of parseFolderNames.
ReleaseWords ==
  { <<"M","U","L","T","I">>, <<"W","E","B","-","D","L">>, <<"S","D","R">>,
    <<"H","2","6","5">>, <<"H","2","6","4">>, <<"A","A","C">>, <<"A","C","3">>,
    <<"D","D","P","5",".","1">>, <<"2","1","6","0","p">>, <<"1","0","8","0","p">>,
    <<"7","2","0","p">>, <<"4","8","0","p">> }

\* The positions at which a release word (case-insensitive) that starts at
\* position i of s ends.
ReleaseWordEnds(s, i) ==
  {i + Len(w) - 1 : w \in {v \in ReleaseWords :
      /\ i + Len(v) - 1 <= Len(s)
      /\ ToLowerCase(SubSeq(s, i, i + Len(v) - 1)) = ToLowerCase(v)}}

Min(S) == CHOOSE x \in S : \A y \in S : x <= y
Max(S) == CHOOSE x \in S : \A y \in S : x >= y

\* The end of the white space run that follows position e of s (e if none).
SpaceRunEnd(s, e) ==
  Max({e} \cup {j \in (e + 1)..Len(s) : AllSpace(SubSeq(s, e + 1, j))})

\* s.replace(/\s*\.(words).*$/i, ''): s up to the white space before the
\* first dot that a release word follows.
removeDottedRelease(s) ==
  LET dots == {i \in 1..Len(s) : s[i] = "." /\ ReleaseWordEnds(s, i + 1) # {}}
  IN  IF dots = {} THEN s
      ELSE StripRight(SubSeq(s, 1, Min(dots) - 1), WhiteSpace)

\* The ends of the matches at position i of s of a release word or of
\* S\d+(E\d+)?.
TokenEnds(s, i, token) ==
  IF token = "release" THEN ReleaseWordEnds(s, i) ELSE SeasonTokenEnds(s, i)

\* s.replace(/\s+TOKEN(\s+|$)/i, ''): the first white space run that such a
\* token follows, the token and the white space after it are removed,
\* provided white space or the end of s follows the token.
removeSpaced(s, token) ==
  LET tokenAfter(i) == SpaceRunEnd(s, i) + 1
      ends(i) == {e \in TokenEnds(s, tokenAfter(i), token) :
                    e = Len(s) \/ s[e + 1] \in WhiteSpace}
      starts == {i \in 1..Len(s) : s[i] \in WhiteSpace /\ ends(i) # {}}
  IN  IF starts = {} THEN s
      ELSE LET i == Min(starts)
               j == SpaceRunEnd(s, Max(ends(i)))
           IN  SubSeq(s, 1, i - 1) \o SubSeq(s, j + 1, Len(s))

\* s.replace(/S\d+(E\d+)?$/i, '')
removeTrailingSeason(s) ==
  LET starts == {i \in 1..Len(s) : Len(s) \in SeasonTokenEnds(s, i)}
  IN  IF starts = {} THEN s ELSE SubSeq(s, 1, Min(starts) - 1)

\* s.replace(/\s+/g, ' ')
RECURSIVE collapseSpace(_)
collapseSpace(s) ==
  IF s = <<>> THEN <<>>
  ELSE IF Head(s) \in WhiteSpace
       THEN <<" ">> \o collapseSpace(StripLeft(s, WhiteSpace))
       ELSE <<Head(s)>> \o collapseSpace(Tail(s))

\* parseFolderNames: the clean-up of a folder's title.
cleanTitle(t) ==
  Trim(collapseSpace(removeTrailingSeason(
    removeSpaced(removeSpaced(removeDottedRelease(t), "release"), "season"))))

\* The names of the repository's tests and examples, shortened: file names
\* without extension (scanner: name = path.basename(item, ext)).
BreakingBad == <<"B","b"," ","S","0","5","E","1","0">>
SpecialEpisode == <<"T","v",".","S","0","1","E","0","0">>
TheOffice == <<"T","o"," ","S","9",".","E","2","3">>
BareEpisode == <<"S","0","2","E","0","1">>
DarkKnight == <<"D","k">>
DarkKnight2008 == <<"D","k"," ","2","0","0","8">>
SquidGameEP == <<"S","g"," ","S","0","3","E","P","0","1">>
SeasonDir == <<"S","0","2">>
ShowDir == <<"S","g",".","S","0","2",".","M","U","L","T","I">>
RootDirs == << <<"m","e","d","i","a">>, <<"d","r","o","p">> >>

FileNames ==
  {BreakingBad, SpecialEpisode, TheOffice, BareEpisode, DarkKnight, DarkKnight2008,
   SquidGameEP}

FolderNames == {SeasonDir, ShowDir, BreakingBad, TheOffice, DarkKnight}

\* parse-torrent-name: what the library returns for the names above (title,
\* year, season, episode; a field it did not find is absent).  A name
\* without release tokens is returned as the title.
parseTorrentName(name) ==
  CASE name = BreakingBad ->
         [title |-> <<"B","b">>, season |-> 5, episode |-> 10]
    [] name = SpecialEpisode ->
         [title |-> <<"T","v">>, season |-> 1, episode |-> 0]
    [] name = TheOffice ->
         [title |-> <<"T","o"," ","S","9",".">>, episode |-> 23]
    [] name = BareEpisode ->
         [title |-> <<>>, season |-> 2, episode |-> 1]
    [] name = DarkKnight2008 ->
         [title |-> <<"D","k">>, year |-> 2008]
    [] name = normalizeName(SquidGameEP) ->
         [title |-> <<"S","g">>, season |-> 3, episode |-> 1]
    [] name = ShowDir ->
         [title |-> <<"S","g"," ","S","0","2"," ","M","U","L","T","I">>]
    [] OTHER -> [title |-> name]

\* obj without the field f (the local is undefined).
Without(obj, f) == [k \in DOMAIN obj \ {f} |-> obj[k]]

initialType_either(parsed) ==
  IF TruthyNum(parsed, "season") \/ TruthyNum(parsed, "episode") THEN "tv" ELSE "movie"

\* (parsed.season && parsed.episode) ? 'tv' : 'movie'
initialType(parsed) ==
  IF TruthyNum(parsed, "season") /\ TruthyNum(parsed, "episode") THEN "tv" ELSE "movie"

\* parseFilename up to the folder fallback: the locals title, year, season,
\* episode and type after the filename has been parsed.
parseName(filename) ==
  LET parsed == parseTorrentName(normalizeName(filename))
      \* let title = parsed.title || undefined; year, season, episode, type
      l0 == [f \in (DOMAIN parsed \cap {"year", "season", "episode"}) \cup {"type"}
               \cup (IF TruthyStr(parsed, "title") THEN {"title"} ELSE {}) |->
             IF f = "type" THEN initialType(parsed) ELSE parsed[f]]
      \* Adjust type based on title content
      l1 == IF /\ l0.type = "tv" /\ Has(l0, "title")
               /\ (hasSeasonToken(l0.title) \/ hasSeasonWord(l0.title))
            THEN With(l0, "type", "movie") ELSE l0
      \* a title that is just a season/episode identifier is not used
      l2 == IF /\ Has(l1, "title")
               /\ \/ isSeasonToken(Trim(l1.title))
                  \/ ToLowerCase(Trim(l1.title)) = <<"s","0","2">>
            THEN Without(l1, "title") ELSE l1
      \* year from a title that ends with four digits
      l3 == IF /\ ~TruthyNum(l2, "year") /\ Has(l2, "title")
               /\ Len(l2.title) >= 4
               /\ AllDigits(SubSeq(l2.title, Len(l2.title) - 3, Len(l2.title)))
            THEN With(With(l2, "year",
                           ParseInt(SubSeq(l2.title, Len(l2.title) - 3, Len(l2.title)))),
                      "title",
                      Trim(StripRight(SubSeq(l2.title, 1, Len(l2.title) - 4), WhiteSpace)))
            ELSE l2
  IN  l3

\* path.dirname and path.basename of a path without trailing separator.
dirname(p) == IF p = <<>> THEN <<>> ELSE SubSeq(p, 1, Len(p) - 1)
basename(p) == p[Len(p)]

\* currentPath === rootScanPath: the strings are equal; currentPath comes
\* from path.dirname and never ends with a separator.
sameString(p, root) == ~root.slash /\ p = root.dirs

\* path.resolve(currentPath) === path.resolve(rootScanPath): path.resolve
\* drops a trailing separator.
sameResolved(p, root) == p = root.dirs

\* The condition of the while loop of parseFolderNames.
walkOn ==
  /\ levelsChecked < 2
  /\ ~sameString(currentPath, parseInput.rootScanPath)
  /\ currentPath # dirname(currentPath)

\* Second pass of parseFolderNames, one folder: what the folder's parse adds
\* to folderMetadata.
extractFolder(fm, parsed) ==
  IF /\ TruthyStr(parsed, "title") /\ ~TruthyStr(fm, "title")
     /\ isSeasonToken(Trim(parsed.title))
  THEN fm   \* continue
  ELSE LET f1 == IF /\ TruthyStr(parsed, "title") /\ ~TruthyStr(fm, "title")
                    /\ cleanTitle(parsed.title) # <<>>
                 THEN With(fm, "title", cleanTitle(parsed.title)) ELSE fm
           f2 == IF TruthyNum(parsed, "year") /\ ~TruthyNum(f1, "year")
                 THEN With(f1, "year", parsed.year) ELSE f1
           f3 == IF TruthyNum(parsed, "season") /\ ~TruthyNum(f2, "season")
                 THEN With(f2, "season", parsed.season) ELSE f2
           f4 == IF TruthyNum(parsed, "episode") /\ ~TruthyNum(f3, "episode")
                 THEN With(f3, "episode", parsed.episode) ELSE f3
       IN  IF /\ TruthyNum(parsed, "season") \/ TruthyNum(parsed, "episode")
              /\ ~Has(f4, "type")
           THEN With(f4, "type", "tv") ELSE f4

RECURSIVE extractFolders(_, _)
\* for (let i = folderParses.length - 1; i >= 0; i--): from the outermost
\* folder to the innermost.
extractFolders(fm, parses) ==
  IF parses = <<>> THEN fm
  ELSE extractFolders(extractFolder(fm, parses[Len(parses)]),
                      SubSeq(parses, 1, Len(parses) - 1))

\* parseFilename: the merge of the folder metadata into the locals.
mergeFolder(l, fm) ==
  LET m1 == IF /\ TruthyStr(fm, "title")
               /\ \/ ~TruthyStr(l, "title")
                  \/ isSeasonToken(Trim(l.title))
                  \/ Trim(l.title) = <<>>
            THEN With(l, "title", fm.title) ELSE l
      m2 == IF TruthyNum(fm, "year") /\ ~TruthyNum(m1, "year")
            THEN With(m1, "year", fm.year) ELSE m1
      m3 == IF TruthyNum(fm, "season") /\ ~TruthyNum(m2, "season")
            THEN With(m2, "season", fm.season) ELSE m2
      m4 == IF TruthyNum(fm, "episode") /\ ~TruthyNum(m3, "episode")
            THEN With(m3, "episode", fm.episode) ELSE m3
  IN  IF /\ Has(fm, "type") /\ m4.type = "movie"
         /\ (TruthyNum(m4, "season") \/ TruthyNum(m4, "episode"))
      THEN With(m4, "type", "tv") ELSE m4

\* parseFilename, lines up to the folder fallback; with fullPath and
\* rootScanPath it enters parseFolderNames.
ParseName ==
  /\ parsePc = "parse"
  /\ fileParse' = parseName(parseInput.filename)
  /\ IF parseInput.hasPath
     THEN /\ parsePc' = "walk"
          /\ currentPath' = dirname(parseInput.fullPath)
     ELSE /\ parsePc' = "return"
          /\ UNCHANGED currentPath
  /\ UNCHANGED <<parseInput, levelsChecked, folderParses, folderMetadata, parsedFolders,
                 parseResult, orgVars, enrichVars, sanitizeVars, revertVars, configVars>>

\* parseFolderNames, first pass: one iteration of the while loop.
WalkFolder ==
  /\ parsePc = "walk"
  /\ walkOn
  /\ folderParses' =
       Append(folderParses, parseTorrentName(normalizeName(basename(currentPath))))
  /\ parsedFolders' = Append(parsedFolders, currentPath)
  /\ currentPath' = dirname(currentPath)
  /\ levelsChecked' = levelsChecked + 1
  /\ parsePc' = IF sameResolved(currentPath', parseInput.rootScanPath)
                THEN "extract" ELSE "walk"
  /\ UNCHANGED <<parseInput, fileParse, folderMetadata, parseResult, orgVars, enrichVars, sanitizeVars, revertVars, configVars>>

\* parseFolderNames, first pass: the loop condition fails.
WalkDone ==
  /\ parsePc = "walk"
  /\ ~walkOn
  /\ parsePc' = "extract"
  /\ UNCHANGED <<parseInput, fileParse, currentPath, levelsChecked, folderParses,
                 folderMetadata, parsedFolders, parseResult, orgVars, enrichVars, sanitizeVars, revertVars, configVars>>

\* parseFolderNames, second pass and return.
ExtractFolders ==
  /\ parsePc = "extract"
  /\ folderMetadata' = extractFolders(Empty, folderParses)
  /\ parsePc' = "merge"
  /\ UNCHANGED <<parseInput, fileParse, currentPath, levelsChecked, folderParses,
                 parsedFolders, parseResult, orgVars, enrichVars, sanitizeVars, revertVars, configVars>>

\* parseFilename: "Merge folder metadata with filename metadata".
MergeFolder ==
  /\ parsePc = "merge"
  /\ fileParse' = mergeFolder(fileParse, folderMetadata)
  /\ parsePc' = "return"
  /\ UNCHANGED <<parseInput, currentPath, levelsChecked, folderParses, folderMetadata,
                 parsedFolders, parseResult, orgVars, enrichVars, sanitizeVars, revertVars, configVars>>

\* parseFilename: const metadata = { title, year, season, episode, type };
\* return metadata.
ReturnMetadata ==
  /\ parsePc = "return"
  /\ parseResult' = fileParse
  /\ parsePc' = "returned"
  /\ UNCHANGED <<parseInput, fileParse, currentPath, levelsChecked, folderParses,
                 folderMetadata, parsedFolders, orgVars, enrichVars, sanitizeVars, revertVars, configVars>>

\* The sequences over S of length at most n.
SeqsUpTo(S, n) == UNION {[1..k -> S] : k \in 0..n}

\* The calls: parseFilename(name) as the tests make it, and
\* parseFilename(file.name, file.path, scanPath) as handleApply makes it for a
\* file at most MaxDepth folders below the scan path; the scan path is
\* absolute, with or without a trailing separator.
ParseInputs ==
  {[filename |-> f, hasPath |-> FALSE] : f \in FileNames}
  \cup
  {[filename |-> f, hasPath |-> TRUE,
    fullPath |-> RootDirs \o sub \o <<f>>,
    rootScanPath |-> [dirs |-> RootDirs, slash |-> sl]] :
     f \in FileNames, sub \in SeqsUpTo(FolderNames, MaxDepth), sl \in BOOLEAN}

InitParse ==
  /\ OrganizerAtRest
  /\ EnrichAtRest
  /\ SanitizeAtRest
  /\ ConfigAtRest
  /\ RevertAtRest
  /\ parsePc = "parse"
  /\ parseInput \in ParseInputs
  /\ fileParse = NoMetadata
  /\ currentPath = <<>>
  /\ levelsChecked = 0
  /\ folderParses = <<>>
  /\ folderMetadata = Empty
  /\ parsedFolders = <<>>
  /\ parseResult = NoMetadata

NextParse ==
  \/ ParseName
  \/ WalkFolder
  \/ WalkDone
  \/ ExtractFolders
  \/ MergeFolder
  \/ ReturnMetadata

SpecParse == InitParse /\ [][NextParse]_vars

\* ----------------------------------- core-data/parser: sanitizeFilename

\* The characters of the names: a letter, the two characters stripped from
\* the end, a forbidden character and a control character.
NameChars == {"a", ".", " ", ":", "\t"}

\* The names: every string over NameChars of length at most MaxNameLen.
Names == UNION {[1..n -> NameChars] : n \in 0..MaxNameLen}

\* A caller applies sanitizeFilename to the name, then to what it returned.
Sanitize ==
  /\ Len(sanitized) < 2
  /\ sanitized' = Append(sanitized,
                         sanitizeFilename(IF sanitized = <<>> THEN sanitizeInput
                                          ELSE sanitized[Len(sanitized)]))
  /\ UNCHANGED <<sanitizeInput, orgVars, enrichVars, parseVars, revertVars, configVars>>

InitSanitize ==
  /\ OrganizerAtRest
  /\ EnrichAtRest
  /\ ParseAtRest
  /\ RevertAtRest
  /\ ConfigAtRest
  /\ sanitizeInput \in Names
  /\ sanitized = <<>>

NextSanitize == Sanitize

SpecSanitize == InitSanitize /\ [][NextSanitize]_vars

\* ------------------------------------------------------ action/revert

\* The pool entries an apply run moves: the well-formed videos.  The first
\* two have the same destination.
Movable == {1, 2, 3}

\* An earlier apply run moves a file and records the move (organizeFiles:
\* ensureDir, fs.move, saveFileMove); a taken destination is overwritten
\* (the resolver answered overwrite).  The row's timestamp is
\* CURRENT_TIMESTAMP, which has a resolution of one second: the move falls
\* into the same second as the move before it, or into a later one.
RecordMove ==
  /\ revertPc = "record"
  /\ Len(moveLog) < MaxMoves
  /\ \E k \in Movable, tick \in {0, 1} :
       LET src == Pool[k].file.path
           dest == newPathOf(Pool[k].metadata, Pool[k].file.extension)
       IN  /\ ~moveRaises(src, dest, TRUE)
           /\ fsFiles' = moved(src, dest)
           /\ dirs' = dirs \cup Ancestors(dirname(dest))
           /\ moveLog' = Append(moveLog, fileMove(src, dest))
           /\ clock' = clock + tick
           /\ timestamps' = Append(timestamps, clock')
  /\ UNCHANGED <<files, metadatas, preview, pc, vidx, sidx, results, previewResults,
                 conflictCalls, consoleErrors, thrown, initialFiles, fileMetadata,
                 revertPc, movesToRevert, revertIdx,
                 enrichVars, parseVars, sanitizeVars, configVars>>

\* getRecentMoves: SELECT * FROM file_moves ORDER BY timestamp DESC LIMIT 100.
\* The orders in which the rows can come back: any order of the rows in
\* which no row precedes a row with a later timestamp (the order of rows
\* with equal timestamps is not determined by the statement).  MaxMoves is
\* below the limit.
recentOrders ==
  {order \in [1..Len(moveLog) -> 1..Len(moveLog)] :
     /\ \A i, j \in 1..Len(moveLog) : i # j => order[i] # order[j]
     /\ \A i, j \in 1..Len(moveLog) :
          i < j => timestamps[order[i]] >= timestamps[order[j]]}

\* handleRevert(count) up to `const movesToRevert = moves.slice(0, count)`;
\* count is the argument or the prompt's answer.  Without recorded moves it
\* returns at once.
RevertStart ==
  /\ revertPc = "record"
  /\ \E count \in 1..(MaxMoves + 1), order \in recentOrders :
       LET moves == [i \in 1..Len(moveLog) |-> moveLog[order[i]]]
       IN  /\ movesToRevert' =
                SubSeq(moves, 1, IF count < Len(moves) THEN count ELSE Len(moves))
           /\ revertPc' = IF Len(moves) = 0 THEN "returned" ELSE "revert"
  /\ UNCHANGED <<orgVars, timestamps, clock, revertIdx, enrichVars, parseVars, sanitizeVars, configVars>>

\* One iteration of `for (const move of movesToRevert)`: fs.move(new_path,
\* original_path, { overwrite: true }) creates the directory of
\* original_path; it raises when nothing is at new_path, which is logged.
RevertMove ==
  /\ revertPc = "revert"
  /\ revertIdx <= Len(movesToRevert)
  /\ LET move == movesToRevert[revertIdx]
     IN  IF moveRaises(move.new_path, move.original_path, TRUE)
         THEN UNCHANGED <<fsFiles, dirs>>
         ELSE /\ fsFiles' = moved(move.new_path, move.original_path)
              /\ dirs' = dirs \cup Ancestors(dirname(move.original_path))
  /\ revertIdx' = revertIdx + 1
  /\ UNCHANGED <<files, metadatas, preview, pc, vidx, sidx, results, previewResults,
                 moveLog, conflictCalls, consoleErrors, thrown, initialFiles, fileMetadata,
                 revertPc, timestamps, clock, movesToRevert,
                 enrichVars, parseVars, sanitizeVars, configVars>>

RECURSIVE deleteEmptyDirectoriesRecursively(_, _, _)
\* deleteEmptyDirectoriesRecursively(dirPath, maxDepth): the directories
\* left of ds.
deleteEmptyDirectoriesRecursively(ds, dirPath, maxDepth) ==
  IF dirPath \notin ds THEN ds
  ELSE IF /\ \A p \in DOMAIN fsFiles : dirname(p) # dirPath
          /\ \A d \in ds : dirname(d) # dirPath \/ d = <<>>
       THEN IF maxDepth > 0
            THEN deleteEmptyDirectoriesRecursively(ds \ {dirPath}, dirname(dirPath),
                                                   maxDepth - 1)
            ELSE ds \ {dirPath}
       ELSE ds

RECURSIVE cleanAffected(_, _)
\* for (const filePath of affectedPaths): the directories left of ds after
\* the clean-up for the paths of moves, in their order.
cleanAffected(ds, moves) ==
  IF moves = <<>> THEN ds
  ELSE cleanAffected(
         deleteEmptyDirectoriesRecursively(ds, dirname(Head(moves).original_path), 2),
         Tail(moves))

\* handleRevert after the loop: the clean-up of empty directories, and the
\* return.
RevertReturn ==
  /\ revertPc = "revert"
  /\ revertIdx > Len(movesToRevert)
  /\ dirs' = cleanAffected(dirs, movesToRevert)
  /\ revertPc' = "returned"
  /\ UNCHANGED <<files, metadatas, preview, pc, vidx, sidx, results, previewResults,
                 fsFiles, moveLog, conflictCalls, consoleErrors, thrown, initialFiles,
                 fileMetadata, timestamps, clock, movesToRevert, revertIdx,
                 enrichVars, parseVars, sanitizeVars, configVars>>

\* The scanned folder holds the movable files, nothing has been moved or
\* recorded.
InitRevert ==
  /\ files = <<>>
  /\ metadatas = <<>>
  /\ preview = TRUE
  /\ pc = "enrich"
  /\ vidx = 1 /\ sidx = 1
  /\ results = <<>>
  /\ previewResults = <<>>
  /\ fsFiles = [p \in {Pool[k].file.path : k \in Movable} |-> p]
  /\ initialFiles = fsFiles
  /\ fileMetadata = NoMetadata
  /\ dirs = Ancestors(scanPath)
  /\ moveLog = <<>>
  /\ conflictCalls = <<>>
  /\ consoleErrors = <<>>
  /\ thrown = "none"
  /\ EnrichAtRest
  /\ ParseAtRest
  /\ SanitizeAtRest
  /\ ConfigAtRest
  /\ revertPc = "record"
  /\ timestamps = <<>>
  /\ clock = 0
  /\ movesToRevert = <<>>
  /\ revertIdx = 1

NextRevert ==
  \/ RecordMove
  \/ RevertStart
  \/ RevertMove
  \/ RevertReturn

SpecRevert == InitRevert /\ [][NextRevert]_vars

\* ------------------------------------------------------ config/config

\* The keys of AppConfig the organizer reads, and the values a file gives them.
ConfigKeys == {"moviePath", "tvPath"}

ConfigValues == {"/a", "/b"}

\* allPaths and locationNames, in the order the loop visits them.
locationNames == <<"Scanned Folder", "User Folder", "Project Folder">>

\* What can be at a config path: no file, a file that is not JSON, or a JSON
\* object that defines some of the keys.
ConfigFileStates ==
  {[state |-> "absent", json |-> Empty], [state |-> "invalid", json |-> Empty]}
    \cup {[state |-> "json", json |-> c] :
            c \in UNION {[ks -> ConfigValues] : ks \in SUBSET ConfigKeys}}

\* fs.existsSync(configPath).
configExists(location) == configFiles[location].state # "absent"

\* JSON.parse of the file succeeded.
configParsed(location) == configFiles[location].state = "json"

\* { ...mergedConfig, ...config }
spread(mergedConfig, config) ==
  [k \in DOMAIN mergedConfig \cup DOMAIN config |->
     IF k \in DOMAIN config THEN config[k] ELSE mergedConfig[k]]

\* The locations the loop does not skip: the scanned folder only with scanPath.
visited(i) == i > 1 \/ configScanPath

\* mergedConfig after the first i iterations of the loop.
RECURSIVE mergedConfigAfter(_)
mergedConfigAfter(i) ==
  IF i = 0 THEN Empty
  ELSE IF visited(i) /\ configParsed(locationNames[i])
       THEN spread(mergedConfigAfter(i - 1), configFiles[locationNames[i]].json)
       ELSE mergedConfigAfter(i - 1)

\* The sources array: one entry per visited location, in loop order.  An
\* entry whose config is null has isNull set and no keys.
configSources ==
  LET entry(i) == [location |-> locationNames[i],
                   exists   |-> configExists(locationNames[i]),
                   isNull   |-> ~configParsed(locationNames[i]),
                   config   |-> configFiles[locationNames[i]].json]
  IN  (IF configScanPath THEN <<entry(1)>> ELSE <<>>) \o <<entry(2), entry(3)>>

\* primarySource.location
primarySource ==
  IF configScanPath THEN configSources[1].location
  ELSE IF \E i \in 1..2 : configSources[i].exists
       THEN configSources[CHOOSE i \in 1..2 :
                            /\ configSources[i].exists
                            /\ \A j \in 1..(i - 1) : ~configSources[j].exists].location
       ELSE configSources[2].location

\* loadConfig(scanPath)
LoadConfig ==
  /\ configResult = Empty
  /\ configResult' = [config  |-> mergedConfigAfter(3),
                      source  |-> primarySource,
                      sources |-> configSources]
  /\ UNCHANGED <<configFiles, configScanPath, orgVars, enrichVars, parseVars,
                 sanitizeVars, revertVars>>

InitConfig ==
  /\ OrganizerAtRest
  /\ EnrichAtRest
  /\ ParseAtRest
  /\ SanitizeAtRest
  /\ RevertAtRest
  /\ configFiles \in [{locationNames[i] : i \in 1..3} -> ConfigFileStates]
  /\ configScanPath \in BOOLEAN
  /\ configResult = Empty

NextConfig == LoadConfig

SpecConfig == InitConfig /\ [][NextConfig]_vars

\* ------------------------------------------------- properties: organizer

Last(seq) == seq[Len(seq)]

\* The entries of a results array that belong to the file at `path`.
EntriesOf(res, path) == {k \in 1..Len(res) : res[k].originalPath = path}

DirOf(path) == SubSeq(path, 1, Len(path) - 1)

\* The step pushes one ProcessedFile to results.
Pushes == Len(results') = Len(results) + 1

\* The file the next loop iteration of the current run handles, if any.
HasCurrent == pc = "organize" /\ (vidx <= Len(videoFiles) \/ sidx <= Len(subtitleFiles))
CurrentFile ==
  IF vidx <= Len(videoFiles) THEN videoFiles[vidx].file ELSE subtitleFiles[sidx].file

\* C1: a preview run performs no filesystem mutation: while organizeFiles
\* runs with preview = true no directory is created, no file is moved or
\* overwritten, no move is recorded in the move log, and the conflict
\* resolver is not called.
C1_PreviewMutatesNothing ==
  [][preview => UNCHANGED <<fsFiles, dirs, moveLog, conflictCalls>>]_vars

\* C1 witness: a preview run has returned, having reported a file on a taken
\* destination and a file on a free one (the existence checks were made).
C1_Witness ==
  /\ pc = "confirm"
  /\ \E k \in 1..Len(previewResults) : previewResults[k].action = "overwrite"
  /\ \E k \in 1..Len(previewResults) : previewResults[k].action = "preview"

\* C2: in an apply run, whenever a file ends with action move or overwrite,
\* its destination directory exists, the file has left originalPath and is
\* at plannedPath, a file that was at the destination has been replaced if
\* and only if the action is overwrite, no other file was touched, and the
\* move (originalPath, plannedPath) is the record added to the move log.
C2_MoveEffects ==
  [][(~preview /\ Pushes /\ Last(results').action \in {"move", "overwrite"}) =>
       LET r == Last(results')
       IN  /\ DirOf(r.newPath) \in dirs'
           /\ r.originalPath \in DOMAIN fsFiles
           /\ r.originalPath \notin DOMAIN fsFiles'
           /\ r.newPath \in DOMAIN fsFiles'
           /\ fsFiles'[r.newPath] = fsFiles[r.originalPath]
           /\ (r.newPath \in DOMAIN fsFiles) <=> (r.action = "overwrite")
           /\ \A q \in DOMAIN fsFiles \ {r.originalPath, r.newPath} :
                q \in DOMAIN fsFiles' /\ fsFiles'[q] = fsFiles[q]
           /\ moveLog' = Append(moveLog,
                [original_path |-> r.originalPath, new_path |-> r.newPath])
  ]_vars

\* C2 witness: an apply run has returned with one file moved to a free
\* destination and one file moved over an existing file, both logged.
C2_Witness ==
  /\ pc = "done"
  /\ \E k \in 1..Len(results) : results[k].action = "move"
  /\ \E k \in 1..Len(results) : results[k].action = "overwrite"
  /\ Len(moveLog) = 2

\* C3: in an apply run, a file whose destination already exists makes
\* exactly one call onConflict(originalPath, plannedPath), a file whose
\* destination is free makes none, and the action of the file is exactly
\* the answer of that call.
C3_ResolverOncePerConflict ==
  [][(~preview /\ HasCurrent /\ pc' # "threw" /\ <<vidx, sidx>>' # <<vidx, sidx>>) =>
       LET file == CurrentFile
           dest == IF Pushes THEN Last(results').newPath
                   ELSE IF consoleErrors' # consoleErrors THEN Last(consoleErrors').newPath
                   ELSE file.path
       IN  IF dest # file.path /\ dest \in DOMAIN fsFiles
           THEN /\ Len(conflictCalls') = Len(conflictCalls) + 1
                /\ SubSeq(conflictCalls', 1, Len(conflictCalls)) = conflictCalls
                /\ Last(conflictCalls').original = file.path
                /\ Last(conflictCalls').newPath = dest
                /\ Last(conflictCalls').answer \in {"skip", "overwrite"}
                /\ Pushes => Last(results').action = Last(conflictCalls').answer
                /\ Last(conflictCalls').answer = "skip" => Pushes
           ELSE /\ conflictCalls' = conflictCalls
                /\ Pushes => Last(results').action \in {"move", "skip"}
  ]_vars

\* C3 witness: an apply run has returned after the resolver answered skip
\* for one file and overwrite for another, and both results say so.
C3_Witness ==
  /\ pc = "done"
  /\ \E c \in 1..Len(conflictCalls), k \in 1..Len(results) :
       /\ conflictCalls[c].answer = "skip"
       /\ results[k].originalPath = conflictCalls[c].original
       /\ results[k].action = "skip"
  /\ \E c \in 1..Len(conflictCalls), k \in 1..Len(results) :
       /\ conflictCalls[c].answer = "overwrite"
       /\ results[k].originalPath = conflictCalls[c].original
       /\ results[k].action = "overwrite"

\* C4: every input MediaFile has exactly one ProcessedFile in the result a
\* run returns, a file whose move failed included.
C4_EveryFileOneResult ==
  /\ pc = "confirm" =>
       \A i \in 1..Len(files) : Cardinality(EntriesOf(previewResults, files[i].path)) = 1
  /\ pc = "done" =>
       \A i \in 1..Len(files) : Cardinality(EntriesOf(results, files[i].path)) = 1

\* The required fields a metadata lacks: a movie needs a title; an episode
\* needs title, season, episode and episodeTitle.  A blank string is missing.
Blank(m, f) == ~Has(m, f) \/ Trim(m[f]) = <<>>
MissingFields(m) ==
  IF m.type = "movie" THEN {f \in {"title"} : Blank(m, f)}
  ELSE IF m.type = "tv"
  THEN {f \in {"title", "episodeTitle"} : Blank(m, f)} \cup
       {f \in {"season", "episode"} : ~Has(m, f)}
  ELSE {}

\* What C5 asks of a returned (or growing) results array for the video at
\* index k of videoFiles.
SkippedInPlace(res, k) ==
  LET file == videoFiles[k].file
      missing == MissingFields(videoFiles[k].metadata)
  IN  missing # {} =>
        /\ Cardinality(EntriesOf(res, file.path)) = 1
        /\ \A e \in EntriesOf(res, file.path) :
             /\ res[e].action = "skip"
             /\ res[e].newPath = file.path
             /\ Len(res[e].errors) = Cardinality(missing)

\* C5: a primary file that lacks a required field of its type is, once its
\* loop iteration has run, in the results exactly once with action skip,
\* plannedPath = originalPath and one error message per missing field (in
\* the preview run and in the apply run), and it is never moved: it stays at
\* its path with its content and no move of it is logged.
C5_InvalidPrimarySkipped ==
  /\ \A k \in 1..Len(videoFiles) : k < vidx => SkippedInPlace(results, k)
  /\ (pc \in {"confirm", "cancelled"} \/ ~preview) =>
       \A k \in 1..Len(videoFiles) : SkippedInPlace(previewResults, k)
  /\ \A k \in 1..Len(videoFiles) :
       MissingFields(videoFiles[k].metadata) # {} =>
         LET path == videoFiles[k].file.path
         IN  /\ path \in DOMAIN fsFiles
             /\ fsFiles[path] = initialFiles[path]
             /\ \A j \in 1..Len(moveLog) : moveLog[j].original_path # path

\* C5 witness: an apply run has returned with an episode that lacks two
\* fields skipped with two messages, while another file was moved.
C5_Witness ==
  /\ pc = "done"
  /\ \E k \in 1..Len(results) :
       results[k].action = "skip" /\ Len(results[k].errors) = 2
  /\ \E k \in 1..Len(results) : results[k].action = "move"

\* C6: a move failure in an apply run is caught for that file and never
\* ends the run: organizeFiles raises no move or store error, every loop
\* iteration so far has ended in a result or in a caught failure, and a run
\* that returns has gone through every file of the batch.
C6_MoveFailureIsolated ==
  /\ thrown \notin {"MoveError", "StoreError"}
  /\ ~preview => Len(results) + Len(consoleErrors) = (vidx - 1) + (sidx - 1)
  /\ (pc = "done") =>
       \A i \in 1..Len(files) :
         \/ EntriesOf(results, files[i].path) # {}
         \/ \E j \in 1..Len(consoleErrors) : consoleErrors[j].original = files[i].path

\* C6 witness: an apply run has returned; the move of the first video
\* failed, and a later video and a later subtitle were moved all the same.
C6_Witness ==
  /\ pc = "done"
  /\ Len(consoleErrors) = 1
  /\ consoleErrors[1].error = "MoveError"
  /\ consoleErrors[1].original = videoFiles[1].file.path
  /\ \E k \in 1..Len(results) :
       /\ results[k].action \in {"move", "overwrite"}
       /\ \E v \in 2..Len(videoFiles) : videoFiles[v].file.path = results[k].originalPath
  /\ \E k \in 1..Len(results) :
       /\ results[k].action \in {"move", "overwrite"}
       /\ \E c \in 1..Len(subtitleFiles) : subtitleFiles[c].file.path = results[k].originalPath

\* Nothing lay under the destination roots before the preview run.
DestinationInitiallyEmpty ==
  \A p \in DOMAIN initialFiles : initialFiles[p] # OldContent

\* C7: with an initially empty destination, the plannedPath the preview run
\* returned for a file equals the plannedPath the following apply run over
\* the same inputs returns for that file.
C7_PreviewPlansWhatApplyPlans ==
  (pc = "done" /\ DestinationInitiallyEmpty) =>
    \A k \in 1..Len(results) :
      /\ EntriesOf(previewResults, results[k].originalPath) # {}
      /\ \A e \in EntriesOf(previewResults, results[k].originalPath) :
           previewResults[e].newPath = results[k].newPath

\* C7 witness: from an empty destination an apply run has returned after
\* two files planned the same path (the second met the first one there).
C7_Witness ==
  /\ pc = "done" /\ DestinationInitiallyEmpty
  /\ \E j, k \in 1..Len(results) :
       /\ j < k
       /\ results[j].newPath = results[k].newPath
       /\ results[j].action = "move"
       /\ results[k].action = "overwrite"

\* The normalized stem of a companion and of a primary file: lower case,
\* locale / format suffixes cut (companion only), punctuation removed.
NormalizedCompanion(name) ==
  Filter(Trim(StripSuffix(StripSuffix(ToLowerCase(name), LanguageCodes), FormatCodes)),
         Punctuation)
NormalizedPrimary(name) == Filter(Trim(ToLowerCase(name)), Punctuation)

\* The primaries whose normalized stem contains, or is contained in, the
\* companion's normalized stem.
Containing(name) ==
  {k \in 1..Len(videoFiles) :
     \/ Includes(NormalizedPrimary(videoFiles[k].file.name), NormalizedCompanion(name))
     \/ Includes(NormalizedCompanion(name), NormalizedPrimary(videoFiles[k].file.name))}

\* What C8 asks of a results array for the subtitle at index c.
BorrowsFromFirst(res, c) ==
  LET file == subtitleFiles[c].file
      hits == Containing(file.name)
  IN  \A e \in EntriesOf(res, file.path) :
        IF hits = {}
        THEN res[e].action = "skip" /\ res[e].newPath = file.path
        ELSE LET first == CHOOSE k \in hits : \A j \in hits : k <= j
                 metadata == videoFiles[first].metadata
             IN  /\ res[e].metadata = metadata
                 /\ res[e].newPath =
                      Append(destDirOf(metadata), generateNewName(metadata) \o file.extension)

Happened(ops, outcomes) ==
  \E i \in CallTrace : ioTrace[i].op \in ops /\ ioTrace[i].outcome \in outcomes

\* C9: enrichMetadata never raises to its caller, whichever request to the
\* primary or secondary provider and whichever store access fails at
\* whichever step; what it returns still has every field of its argument,
\* with the argument's year, season, episode and type.
C9_EnrichNeverThrows ==
  /\ ePc # "threw"
  /\ eThrown = "none"
  /\ ePc = "returned" =>
       /\ DOMAIN eInput \subseteq DOMAIN enriched
       /\ \A f \in DOMAIN eInput \ {"title"} : enriched[f] = eInput[f]

\* C9 (witness): a call has returned its argument's fields although, during
\* it, a store access failed, the primary provider gave no episode and the
\* request to the secondary provider failed.
C9_Witness ==
  /\ ePc = "returned"
  /\ Happened(StoreOps, {"error"})
  /\ Happened(StoreOps, {"miss"})
  /\ Happened(SecondaryOps, {"error"})

\* fetchAndStoreTVSeason has run in the current call (the series record was
\* in the store or was fetched) and the last getTVEpisode found no row.
PrimaryGaveNoEpisode ==
  /\ eBranch \in {"store", "fetched"}
  /\ \E i \in CallTrace :
       /\ ioTrace[i].op = "getTVEpisode" /\ ioTrace[i].outcome = "miss"
       /\ \A j \in CallTrace : j > i => ioTrace[j].op # "getTVEpisode"

\* C10: when the primary provider gave no usable episode data for a TV file
\* with season and episode, the secondary provider has been asked before the
\* call returns, whether the series record was in the store or was fetched
\* during the call.
C10_SecondaryAttempted ==
  (/\ ePc = "returned"
   /\ eInput.type = "tv" /\ Has(eInput, "season") /\ Has(eInput, "episode")
   /\ PrimaryGaveNoEpisode)
  => Happened({"tmdbSearchTV"}, {"ok", "notFound", "error"})

\* C11: within one session at most one title lookup goes to the primary
\* provider for a given title[_year] key, whether the first one found the
\* title or not: a repeated enrichMetadata for the key makes no further
\* lookup.
C11_OneLookupPerKey ==
  \A i, j \in 1..Len(ioTrace) :
    (/\ i < j
     /\ ioTrace[i].op = "omdbTitleLookup"
     /\ ioTrace[j].op = "omdbTitleLookup")
    => ioTrace[i].arg # ioTrace[j].arg

\* The call that made entry i of ioTrace.
CallOf(i) ==
  CHOOSE k \in 1..Len(eHistory) :
    /\ eHistory[k].start < i
    /\ k < Len(eHistory) => eHistory[k + 1].start >= i

\* C12: resolving the same (seriesId, season, episode) twice within a run
\* sends at most one season request to the primary provider: no two season
\* requests for one series and season come from resolutions of the same
\* episode.
C12_OneSeasonFetchPerEpisode ==
  \A i, j \in 1..Len(ioTrace) :
    (/\ i < j
     /\ ioTrace[i].op = "omdbSeason" /\ ioTrace[j].op = "omdbSeason"
     /\ ioTrace[i].arg = ioTrace[j].arg)
    => eHistory[CallOf(i)].metadata.episode # eHistory[CallOf(j)].metadata.episode

\* The entries the step adds to ioTrace.
NewEntries == SubSeq(ioTrace', Len(ioTrace) + 1, Len(ioTrace'))
Added(ops, outcomes) ==
  {i \in 1..Len(NewEntries) : NewEntries[i].op \in ops /\ NewEntries[i].outcome \in outcomes}
AllOutcomes == {"ok", "notFound", "error", "hit", "miss"}

\* Every episode the provider lists for the season is a row of the table,
\* under the series, the season and its number, with its title and plot.
SeasonPersisted(table, id, season) ==
  \A n \in 1..Len(omdbSeason(id, season).Episodes) :
    LET ep == omdbSeason(id, season).Episodes[n] IN
    \E k \in episodeKeys(table, id, season, ParseInt(ep.Episode)) :
      table[k].title = ep.Title /\ table[k].plot = ep.Plot

\* C13: on a series hit with an episode miss in the store, enrichMetadata
\* asks the primary provider for the whole season exactly once (the step
\* from the miss sends no other request), persists every episode the
\* provider returned, then reads the requested episode again and uses it
\* when it is there. Stated for steps whose store statements succeed.
C13_SeasonBatchOnEpisodeMiss ==
  [][/\ (ePc = "lookup" /\ ePc' = "season") =>
          /\ NewEntries[Len(NewEntries)] = Io("getTVEpisode", imdbID, "miss")
          /\ Added(ProviderOps, AllOutcomes) = {}
     /\ (ePc = "season" /\ eBranch = "store") =>
          /\ ePc' = "reread"
          /\ Cardinality(Added(ProviderOps, AllOutcomes)) <= 1
          /\ Added(StoreOps, {"error"}) = {} =>
               /\ Cardinality(Added({"omdbSeason"}, AllOutcomes)) = 1
               /\ \A i \in Added({"omdbSeason"}, AllOutcomes) :
                    NewEntries[i].arg = imdbID \o <<"/">> \o NumToStr(eInput.season)
               /\ Added({"omdbSeason"}, {"ok"}) # {} =>
                    SeasonPersisted(tv_show_episode', imdbID, eInput.season)
     /\ (/\ ePc = "reread" /\ eBranch = "store"
         /\ Added(StoreOps, {"error"}) = {}
         /\ episodeKeys(tv_show_episode, imdbID, eInput.season, eInput.episode) # {}) =>
          /\ ePc' = "returned"
          /\ Added(ProviderOps, AllOutcomes) = {}
          /\ \E k \in episodeKeys(tv_show_episode, imdbID, eInput.season, eInput.episode) :
               /\ enriched'.episodeTitle = tv_show_episode[k].title
               /\ enriched'.plot = tv_show_episode[k].plot
    ]_vars

\* C13 (witness): a call found the series but not the episode, asked for the
\* season once, and returned the episode it then read from the store.
C13_Witness ==
  /\ ePc = "returned"
  /\ eBranch = "store"
  /\ Cardinality({i \in CallTrace : ioTrace[i].op = "omdbSeason"}) = 1
  /\ Happened({"omdbSeason"}, {"ok"})
  /\ ioTrace[Len(ioTrace)] = Io("getTVEpisode", imdbID, "hit")
  /\ Has(enriched, "episodeTitle")

\* The store holds the record for the resolved id: the movie, or the series
\* together with the requested episode.
StoreHoldsRecord ==
  IF eInput.type = "movie" THEN imdbID \in DOMAIN movies
  ELSE /\ imdbID \in DOMAIN tv_show
       /\ Has(eInput, "season") /\ Has(eInput, "episode")
       /\ episodeKeys(tv_show_episode, imdbID, eInput.season, eInput.episode) # {}

\* C14: when the store already holds the record for the resolved id (a movie,
\* or a series with the requested episode) and reading it succeeds, the
\* lookup step overwrites title with the stored title, copies the stored
\* fields and returns; the call has sent no fetch-by-id and no season request.
C14_StoreHitNoFetch ==
  [][(/\ ePc = "lookup"
      /\ StoreHoldsRecord
      /\ Added(StoreOps, {"error"}) = {}) =>
       /\ ePc' = "returned"
       /\ Added(ProviderOps, AllOutcomes) = {}
       /\ \A i \in 1..Len(ioTrace') :
            i > callStart => ioTrace'[i].op \notin {"omdbFetch", "omdbSeason"}
       /\ Has(enriched', "title") /\ Has(enriched', "plot")
       /\ IF eInput.type = "movie"
          THEN /\ enriched'.title = movies[imdbID].title
               /\ enriched'.plot = movies[imdbID].plot
          ELSE /\ enriched'.title = tv_show[imdbID].title
               /\ Has(enriched', "episodeTitle")
               /\ \E k \in episodeKeys(tv_show_episode, imdbID, eInput.season,
                                        eInput.episode) :
                    /\ enriched'.episodeTitle = tv_show_episode[k].title
                    /\ enriched'.plot = tv_show_episode[k].plot
    ]_vars

\* C14 (witness): a call for an episode has returned the stored title and
\* episode after the lookup alone, having sent no request by id or season.
C14_Witness ==
  /\ ePc = "returned"
  /\ eBranch = "none"
  /\ eInput.type = "tv"
  /\ ioTrace[Len(ioTrace)] = Io("getTVEpisode", imdbID, "hit")
  /\ ~Happened({"omdbFetch", "omdbSeason"}, AllOutcomes)
  /\ Has(enriched, "episodeTitle")
  /\ enriched.title = tv_show[imdbID].title /\ enriched.title # eInput.title

\* The first store access of the current call was a read that raised.
FirstReadFailed ==
  \E i \in CallTrace :
    /\ ioTrace[i].op \in {"getMovieByImdbID", "getTVShowByImdbID"}
    /\ ioTrace[i].outcome = "error"
    /\ \A j \in CallTrace : j < i => ioTrace[j].op \notin StoreOps

\* C15: a store read that fails during enrichMetadata is treated as a miss:
\* the call goes on to fetch the record from the provider as if it were
\* absent from the store.
C15_ReadFailureIsMiss ==
  (ePc = "returned" /\ FirstReadFailed) => Happened({"omdbFetch"}, AllOutcomes)

Moved == {p \in DOMAIN fsFiles : p \notin DOMAIN fsFiles'}

Extracted == parseTorrentName(normalizeName(parseInput.filename))

\* C18: parse classifies a name as tv if and only if both a season and an
\* episode are extracted and the extracted title is not itself a bare season
\* token; an extracted episode number of 0 counts as extracted.  Stated for
\* the calls in which no folder supplied a type.
C18_TvIffSeasonAndEpisode ==
  (parsePc = "returned" /\ ~Has(folderMetadata, "type"))
    => ((parseResult.type = "tv")
          <=> /\ Has(Extracted, "season") /\ Has(Extracted, "episode")
              /\ ~(Has(Extracted, "title") /\ isSeasonToken(Trim(Extracted.title))))

FoldersBelowRoot ==
  SubSeq(parseInput.fullPath, Len(parseInput.rootScanPath.dirs) + 1,
         Len(parseInput.fullPath) - 1)

\* A folder name whose parse gives parseFolderNames a title.
Usable(name) ==
  LET parsed == parseTorrentName(normalizeName(name))
  IN  /\ TruthyStr(parsed, "title")
      /\ ~isSeasonToken(Trim(parsed.title))
      /\ cleanTitle(parsed.title) # <<>>

\* C20: folder fallback parses at most two ancestor directories of the file
\* and never parses the scan root itself or any directory above it; if the
\* scan root is reached before a usable title is found, title stays
\* undefined.
C20_FolderFallbackInsideRoot ==
  /\ Len(parsedFolders) <= 2
  /\ \A i \in 1..Len(parsedFolders) :
       /\ Len(parsedFolders[i]) > Len(parseInput.rootScanPath.dirs)
       /\ SubSeq(parsedFolders[i], 1, Len(parseInput.rootScanPath.dirs))
            = parseInput.rootScanPath.dirs
  /\ ( /\ parsePc = "returned" /\ parseInput.hasPath
       /\ ~Has(parseName(parseInput.filename), "title")
       /\ Len(FoldersBelowRoot) <= 2
       /\ \A i \in 1..Len(FoldersBelowRoot) : ~Usable(FoldersBelowRoot[i]) )
     => ~Has(parseResult, "title")

\* ------------------------------------------ properties: sanitizeFilename

\* C21: sanitizeFilename is idempotent: for all strings x,
\* sanitizeFilename(sanitizeFilename(x)) equals sanitizeFilename(x).
C21_SanitizeIdempotent ==
  Len(sanitized) = 2 => sanitized[2] = sanitized[1]

\* C21 witness: a name that sanitizeFilename changed, and not into
\* 'Untitled', has been sanitized twice.
C21_Witness ==
  /\ Len(sanitized) = 2
  /\ sanitized[1] # sanitizeInput
  /\ sanitized[1] # StrUntitled

\* ------------------------------------------------- properties: revert

\* C22: handleRevert(count) restores the count most recently recorded
\* moves, newest first, so that after it returns every file moved by those
\* recorded moves is back at its original path.
C22_RevertRestoresNewest ==
  revertPc = "returned"
    => /\ \A i \in 1..Len(movesToRevert) :
            movesToRevert[i] = moveLog[Len(moveLog) + 1 - i]
       /\ \A i \in 1..Len(movesToRevert) :
            /\ movesToRevert[i].original_path \in DOMAIN fsFiles
            /\ fsFiles[movesToRevert[i].original_path] = movesToRevert[i].original_path

\* --------------------------------------------------- properties: config

\* The locations that contributed a value for key k to the merge.
Defining(k) ==
  {i \in 1..3 : /\ visited(i)
                /\ configParsed(locationNames[i])
                /\ k \in DOMAIN configFiles[locationNames[i]].json}

\* C23: for a key defined in more than one source, the merged configuration
\* holds the value of the source of highest priority, the priority being
\* scanned folder > user folder > project folder.
C23_HigherPriorityWins ==
  configResult # Empty
    => \A k \in ConfigKeys :
         Defining(k) # {}
           => LET first == CHOOSE i \in Defining(k) : \A j \in Defining(k) : i <= j
              IN  /\ k \in DOMAIN configResult.config
                  /\ configResult.config[k] = configFiles[locationNames[first]].json[k]

\* ------------------------------------- properties: organizer, second part

\* The resolver answered overwrite for destination p in the apply run.
OverwriteAnswered(p) ==
  \E c \in 1..Len(conflictCalls) :
    conflictCalls[c].newPath = p /\ conflictCalls[c].answer = "overwrite"

\* C24: in an apply run a file that exists at a destination path is
\* replaced only in a step in which the resolver answered overwrite for
\* exactly that path; a destination the resolver never answered overwrite
\* for still holds its file with unchanged content when organizeFiles returns.
C24_ReplacedOnlyOnOverwrite ==
  /\ [][(~preview /\ HasCurrent) =>
          \A p \in DOMAIN fsFiles \ {CurrentFile.path} :
            (p \notin DOMAIN fsFiles' \/ fsFiles'[p] # fsFiles[p]) =>
              /\ Len(conflictCalls') = Len(conflictCalls) + 1
              /\ Last(conflictCalls').newPath = p
              /\ Last(conflictCalls').answer = "overwrite"
       ]_vars
  /\ [](pc = "done" =>
          \A p \in DOMAIN initialFiles :
            (initialFiles[p] = OldContent /\ ~OverwriteAnswered(p)) =>
              p \in DOMAIN fsFiles /\ fsFiles[p] = OldContent)

\* C24 witness: an apply run has returned; the resolver answered skip for a
\* destination that held a file before the run and that file is still there,
\* and it answered overwrite for another destination, whose file was replaced.
C24_Witness ==
  /\ pc = "done"
  /\ \E c \in 1..Len(conflictCalls) :
       /\ conflictCalls[c].answer = "skip"
       /\ conflictCalls[c].newPath \in DOMAIN initialFiles
       /\ fsFiles[conflictCalls[c].newPath] = OldContent
  /\ \E c \in 1..Len(conflictCalls) :
       /\ conflictCalls[c].answer = "overwrite"
       /\ fsFiles[conflictCalls[c].newPath] = conflictCalls[c].original

\* The subtitles whose matched video failed validation, as indexes into
\* subtitleFiles.
CompanionsOfInvalid ==
  {c \in 1..Len(subtitleFiles) :
     /\ matchesOf(subtitleFiles[c].file) # {}
     /\ checkMetadataErrors(videoFiles[matchedVideo(subtitleFiles[c].file)].metadata) # <<>>}

\* C25: a companion matched to a primary that failed validation is not
\* moved (it stays at its path with its content and no move of it is
\* logged), and placing it raises nothing: organizeFiles does not end with
\* the TypeError of a destination computed from incomplete metadata.
C25_CompanionOfInvalidStays ==
  /\ thrown # "TypeError"
  /\ \A c \in CompanionsOfInvalid :
       LET path == subtitleFiles[c].file.path
       IN  /\ path \in DOMAIN fsFiles
           /\ fsFiles[path] = initialFiles[path]
           /\ \A j \in 1..Len(moveLog) : moveLog[j].original_path # path

\* The files the preview run reported with action overwrite.
PreviewOverwrites ==
  {previewResults[k].originalPath :
     k \in {j \in 1..Len(previewResults) : previewResults[j].action = "overwrite"}}

\* The files the apply run put to the conflict resolver.
ResolverFiles == {conflictCalls[c].original : c \in 1..Len(conflictCalls)}

\* C26: when the apply run has returned, the files the preceding preview
\* run over the same inputs reported with action overwrite are exactly the
\* files for which the apply run called the conflict resolver, two files of
\* the batch that plan the same destination included.
C26_PreviewOverwritesAreResolverCalls ==
  pc = "done" => PreviewOverwrites = ResolverFiles

\* The files of the batch that are no longer at their original path.
PhysicallyMoved == {files[i].path : i \in {j \in 1..Len(files) : files[j].path \notin DOMAIN fsFiles}}

\* C27: when an apply run has returned, the move log holds a row
\* (originalPath, plannedPath) for exactly the files that were physically
\* moved, and every physically moved file is in the results with action
\* move or overwrite and the planned path of its row.
C27_LogMatchesMoves ==
  pc = "done" =>
    /\ {moveLog[j].original_path : j \in 1..Len(moveLog)} = PhysicallyMoved
    /\ \A p \in PhysicallyMoved :
         \E k \in 1..Len(results) :
           /\ results[k].originalPath = p
           /\ results[k].action \in {"move", "overwrite"}
           /\ \E j \in 1..Len(moveLog) :
                moveLog[j] = fileMove(p, results[k].newPath)

\* The resolver answered skip in this step.
ResolverSaidSkip ==
  /\ Len(conflictCalls') = Len(conflictCalls) + 1
  /\ Last(conflictCalls').answer = "skip"

\* C28: in an apply run, a loop iteration that ends with action skip (a
\* validation failure, a companion without a matching primary, or a skip
\* answered by the resolver) changes nothing: no directory is created, no
\* file is moved or replaced, and no row is added to the move log.
C28_SkipChangesNothing ==
  [][(~preview /\ ((Pushes /\ Last(results').action = "skip") \/ ResolverSaidSkip)) =>
       /\ Pushes /\ Last(results').action = "skip"
       /\ UNCHANGED <<fsFiles, dirs, moveLog>>
  ]_vars

\* C28 witness: an apply run has returned with three files skipped, one for
\* a validation failure, one because the resolver said skip and one
\* companion without primary, and the file system is as it was before.
C28_Witness ==
  /\ pc = "done"
  /\ \E k \in 1..Len(results) : results[k].action = "skip" /\ results[k].errors # <<>>
  /\ \E k \in 1..Len(results), c \in 1..Len(conflictCalls) :
       /\ results[k].action = "skip"
       /\ conflictCalls[c].original = results[k].originalPath
       /\ conflictCalls[c].answer = "skip"
  /\ \E k \in 1..Len(results) :
       /\ results[k].action = "skip"
       /\ \E c \in 1..Len(subtitleFiles) :
            /\ subtitleFiles[c].file.path = results[k].originalPath
            /\ matchesOf(subtitleFiles[c].file) = {}
  /\ fsFiles = initialFiles
  /\ moveLog = <<>>

\* --------------------------------------- properties: enrichMetadata, store

\* The entries of ioTrace that call k made.
TraceOf(k) == {i \in 1..Len(ioTrace) : CallOf(i) = k}

\* Call k has returned.
Returned(k) == k < Len(eHistory) \/ ePc \in {"returned", "idle"}

\* Call k obtained an episode from TMDB and its insert succeeded.
PersistedTmdbEpisode(k) ==
  \E i \in TraceOf(k) :
    /\ ioTrace[i].op = "tmdbEpisode" /\ ioTrace[i].outcome = "ok"
    /\ i < Len(ioTrace)
    /\ ioTrace[i + 1].op = "saveTVEpisodeBatch" /\ ioTrace[i + 1].outcome = "ok"

\* C29: after a call obtained an episode from TMDB and persisted it, a later
\* call for the same title, season and episode sends no season request and
\* no request to TMDB, and when its reads succeed it finds the episode in
\* the store.
C29_TmdbEpisodeServedFromStore ==
  \A k, j \in 1..Len(eHistory) :
    (/\ k < j
     /\ PersistedTmdbEpisode(k)
     /\ eHistory[j].metadata = eHistory[k].metadata
     /\ Returned(j)) =>
       /\ \A i \in TraceOf(j) : ioTrace[i].op \notin {"omdbSeason"} \cup SecondaryOps
       /\ (\A i \in TraceOf(j) : ioTrace[i].outcome # "error") =>
            \E i \in TraceOf(j) : ioTrace[i] = Io("getTVEpisode", idAb, "hit")

\* Entry i of ioTrace is a fetch by id whose record was then persisted.
FetchPersisted(i) ==
  /\ ioTrace[i].op = "omdbFetch" /\ ioTrace[i].outcome = "ok"
  /\ i < Len(ioTrace)
  /\ ioTrace[i + 1].op \in {"saveMovie", "saveTVShow"} /\ ioTrace[i + 1].outcome = "ok"

\* C30: once a record fetched by id from OMDB has been persisted, no later
\* call sends a fetch by id for the same id, whatever type the parser gave
\* the file.
C30_FetchedIdServedFromStore ==
  \A i, j \in 1..Len(ioTrace) :
    (i < j /\ FetchPersisted(i) /\ ioTrace[j].op = "omdbFetch") =>
      ioTrace[j].arg # ioTrace[i].arg

====
